---- MODULE Spec2Model ----
(***************************************************************************)
(* Verification model of the quota checker of vsc-filesystems:             *)
(*   - QuotaEntity (lib/vsc/filesystem/quota/entities.py)                  *)
(*   - the grace decoding of _update_quota_entity (bin/dquota.py)          *)
(*   - the notification run of bin/dquota.py (process_user_quota,          *)
(*     process_fileset_quota, notify_exceeding_items, main)                *)
(*   - the parsing of the output of the -Y commands and the loops over the *)
(*     devices of list_quota and list_filesets (lib/vsc/filesystem/gpfs.py)*)
(* Strings that the code inspects character by character (fileset names,   *)
(* grace strings) are sequences of one-character strings.                  *)
(***************************************************************************)
EXTENDS Integers, Sequences, FiniteSets, TLC

VARIABLES
    entity,            \* SpecEntity/SpecGrace: one QuotaEntity [quota_map, exceed]
    anyExpiredUpdate,  \* history: some update() of this pass carried an expired flag
    updatedFilesets,   \* history: the fileset names passed to update() in this pass
    removedAny,        \* history: sanitize_quota_information popped an entry
    lastOp,            \* history: the last operation and its arguments
    blockGrace,        \* SpecGrace: quota.blockGrace of the quota line at hand
    graceOutcome,      \* SpecGrace: "pending", "stored" or "raised"
    entityBefore,      \* SpecGrace history: the entity before the line was processed
    clock,             \* SpecRun: time.time()
    runs,              \* SpecRun: number of runs of main() started
    pc,                \* SpecRun: where main() is
    dry_run,           \* SpecRun: opts.options.dry_run of the run
    quota_storage_map, \* SpecRun: entity of each subject (get_mmrepquota_maps)
    pending,           \* SpecRun: subjects the current loop has still to visit
    exceeding,         \* SpecRun: [filesets, users]: the exceeding_* lists
    target,            \* SpecRun: target of the current notify_exceeding_items
    todo,              \* SpecRun: items its loop has still to visit
    cache,             \* SpecRun: the FileCache it opened (in memory)
    cacheFile,         \* SpecRun: the persisted notification caches, per target
    mails,             \* SpecRun history: the mails sent, [target, item, at]
    checked,           \* SpecRun history: items passed to cache.update in this run
    lastCheck,         \* SpecRun history: the last iteration of the notify loop
    failure,           \* SpecRun history: where this run raised
    written,           \* SpecRun history: cache entries set by this run, per target
    everRaised,        \* SpecRun history: some run raised while storing or notifying
    command,           \* SpecParse: the -Y command run: its name and what it printed
    stdout,            \* SpecParse: the output of the command, as _execute returns it
    result,            \* SpecParse: what _executeY made of stdout, or "pending"
    health,            \* SpecParse: what get_mmhealth_state returned, or "pending"
    listing,           \* SpecList: "list_quota" or "list_filesets", "raised" once it raised
    devices,           \* SpecList history: [command, res] of each device visited
    info,              \* SpecList: the MonoidDict info of the loop over the devices
    snapshots,         \* SpecSnap: the snapshots of the filesystem, oldest first
    snapCall,          \* SpecSnap history: the last call, what it ran and returned
    quotaArgs,         \* SpecQuota: the arguments of a call of _set_quota
    quotaCall,         \* SpecQuota: "pending", or the command issued and the exception
    lfsDirs,           \* SpecLfs: the directories below the project locations, with project ids
    lfsParents,        \* SpecLfs: the project locations that exist
    lfsCache,          \* SpecLfs: LustreOperations.filesets[fsname], None when not cached
    lfsCall,           \* SpecLfs history: the last call and how it ended
    symFs,             \* SpecSym: the entries of a directory: absent, file, dir or link
    symCall,           \* SpecSym history: the last call of make_symlink
    symPrev,           \* SpecSym history: the call before it
    statDir,           \* SpecStat: None, or the mode, owner and group of the directory at path
    statCall,          \* SpecStat history: the last call of create_stat_directory
    ignorerealpathmismatch, \* SpecFlag: the flag of the singleton
    flagPc,            \* SpecFlag: the operation running and its position
    flagOutcome,       \* SpecFlag history: how the last operation ended
    gpfsFilesystems,   \* SpecGpfs: what mmlsfs reports for each device (a version of its information)
    gpfslocalfilesystems, \* SpecGpfs: the cached result of list_filesystems, or None
    gpfslocalfilesets, \* SpecGpfs: the cached result of list_filesets, or None
    gpfsCall,          \* SpecGpfs history: the last call and what it returned
    mainFs,            \* SpecMain: what GPFS has for the filesystem of each storage
    mainPc,            \* SpecMain: the position of main
    mainTodo,          \* SpecMain: the storages of the loop still to come
    mainDone,          \* SpecMain history: the storages processed and notified, and those skipped
    mainOutcome        \* SpecMain: how the run ended

entityVars == <<entity, anyExpiredUpdate, updatedFilesets, removedAny, lastOp>>
graceVars  == <<blockGrace, graceOutcome, entityBefore>>
runVars    == <<clock, runs, pc, dry_run, quota_storage_map, pending, exceeding,
               target, todo, cache, cacheFile, mails, checked, lastCheck, failure,
               written, everRaised>>

listVars   == <<listing, devices, info>>
parseVars  == <<command, stdout, result, health, listVars>>

snapVars   == <<snapshots, snapCall>>
quotaVars  == <<quotaArgs, quotaCall>>
lfsVars    == <<lfsDirs, lfsParents, lfsCache, lfsCall>>
symVars    == <<symFs, symCall, symPrev>>
statVars   == <<statDir, statCall>>
flagVars   == <<ignorerealpathmismatch, flagPc, flagOutcome>>
gpfsVars   == <<gpfsFilesystems, gpfslocalfilesystems, gpfslocalfilesets, gpfsCall>>
mainVars   == <<mainFs, mainPc, mainTodo, mainDone, mainOutcome>>
opsVars    == <<snapVars, quotaVars, lfsVars, symVars, statVars, flagVars, gpfsVars, mainVars>>
baseVars   == <<entityVars, graceVars, runVars, parseVars>>
notSnap    == <<baseVars, quotaVars, lfsVars, symVars, statVars, flagVars, gpfsVars, mainVars>>
notQuota   == <<baseVars, snapVars, lfsVars, symVars, statVars, flagVars, gpfsVars, mainVars>>
notLfs     == <<baseVars, snapVars, quotaVars, symVars, statVars, flagVars, gpfsVars, mainVars>>
notSym     == <<baseVars, snapVars, quotaVars, lfsVars, statVars, flagVars, gpfsVars, mainVars>>
notStat    == <<baseVars, snapVars, quotaVars, lfsVars, symVars, flagVars, gpfsVars, mainVars>>
notFlag    == <<baseVars, snapVars, quotaVars, lfsVars, symVars, statVars, gpfsVars, mainVars>>
notGpfs    == <<baseVars, snapVars, quotaVars, lfsVars, symVars, statVars, flagVars, mainVars>>
notMain    == <<baseVars, snapVars, quotaVars, lfsVars, symVars, statVars, flagVars, gpfsVars>>
vars == <<entityVars, graceVars, runVars, parseVars, opsVars>>

\* ------------------------------------------------------------------ bounds
MaxUsed   == 1     \* used KiB values are 1..MaxUsed (times 10)
MaxTokens == 3     \* a grace string is made of at most MaxTokens tokens
MaxRuns   == 2     \* runs of the checker
MaxRows   == 3     \* data rows in the output of a command

\* ------------------------------------------------------- python values
None    == <<>>            \* Python None, as the empty option
Some(n) == <<n>>           \* a present value

StartsWith(s, p) == Len(p) <= Len(s) /\ SubSeq(s, 1, Len(p)) = p

\* ------------------------------------------------------------ QuotaEntity
\* Fileset names: a user fileset, a VO fileset and a project fileset.
FilesetNames == { <<"v","s","c","4","0">>, <<"g","v","o","1">>, <<"g","p","r","1">> }

\* The expired tuples (boolean, grace period in seconds) a caller passes.
ExpiredValues == { <<FALSE, None>>, <<TRUE, Some(86400)>> }

\* The keyword arguments of update(); the fixed values are those of test_quota_update.
UpdateArgs ==
    [ used          : { 10 * k : k \in 1..MaxUsed },
      soft          : {100},
      hard          : {101},
      doubt         : {0, 1},
      expired       : ExpiredValues,
      files_used    : {2},
      files_soft    : {4},
      files_hard    : {6},
      files_doubt   : {1},
      files_expired : { <<FALSE, None>>, <<TRUE, Some(0)>> },
      timestamp     : {Some(20180901)} ]

\* The namedtuple built by update().
QuotaInformation(a) ==
    [ timestamp     |-> a.timestamp,
      used          |-> a.used,
      soft          |-> a.soft,
      hard          |-> a.hard,
      doubt         |-> a.doubt,
      expired       |-> a.expired,
      files_used    |-> a.files_used,
      files_soft    |-> a.files_soft,
      files_hard    |-> a.files_hard,
      files_doubt   |-> a.files_doubt,
      files_expired |-> a.files_expired ]

\* QuotaEntity.__init__
NewQuotaEntity == [ quota_map |-> <<>>, exceed |-> FALSE ]

\* dict item assignment d[k] = v
DictSet(d, k, v) == [ x \in (DOMAIN d) \cup {k} |-> IF x = k THEN v ELSE d[x] ]

\* dict restricted to the keys in keep (the result of a series of pop())
DictKeep(d, keep) == [ x \in (DOMAIN d) \cap keep |-> d[x] ]

\* Mutant: the flag is recomputed from the new snapshot alone.
update_resetting(self, fileset, a) ==
    [ quota_map |-> DictSet(self.quota_map, fileset, QuotaInformation(a)),
      exceed    |-> a.expired[1] \/ a.files_expired[1] ]

\* Mutant: the fields of an existing snapshot are kept where the new value is 0.
update_merging(self, fileset, a) ==
    [ quota_map |-> DictSet(self.quota_map, fileset,
                       IF fileset \in DOMAIN self.quota_map /\ a.doubt = 0
                       THEN [ QuotaInformation(a) EXCEPT
                                !.doubt = self.quota_map[fileset].doubt ]
                       ELSE QuotaInformation(a)),
      exceed    |-> self.exceed \/ a.expired[1] \/ a.files_expired[1] ]

\* QuotaEntity.update
update(self, fileset, a) ==
    [ quota_map |-> DictSet(self.quota_map, fileset, QuotaInformation(a)),
      exceed    |-> self.exceed \/ a.expired[1] \/ a.files_expired[1] ]

\* QuotaEntity.exceeds
exceeds(self) == self.exceed

\* The first arguments sanitize_quota_information is called with
\* (path_template['user'][0]).
SanitizePrefixes == { <<"v","s","c","4">>, <<"g","p","r">> }

\* sanitize_quota_information: pops every fileset that starts with none of
\* 'vsc4', 'gvo' and fileset_name; the exceed flag is not touched.
sanitize_quota_information(fileset_name, quota) ==
    [ quota EXCEPT !.quota_map =
        DictKeep(quota.quota_map,
                 { f \in DOMAIN quota.quota_map :
                     \/ StartsWith(f, <<"v","s","c","4">>)
                     \/ StartsWith(f, <<"g","v","o">>)
                     \/ StartsWith(f, fileset_name) }) ]

\* Some snapshot stored in the entity is expired in one of the two dimensions.
SomeStoredExpired(e) ==
    \E f \in DOMAIN e.quota_map :
        e.quota_map[f].expired[1] \/ e.quota_map[f].files_expired[1]

\* ------------------------------------------------------- grace decoding
Digits     == { "0", "1", "2", "3", "4", "5", "6", "7", "8", "9" }   \* \d
Whitespace == { " " }                                               \* \s

UpperCase == << "A","B","C","D","E","F","G","H","I","J","K","L","M",
                "N","O","P","Q","R","S","T","U","V","W","X","Y","Z" >>
LowerCase == << "a","b","c","d","e","f","g","h","i","j","k","l","m",
                "n","o","p","q","r","s","t","u","v","w","x","y","z" >>

\* re.I: the lower-case form of a character
Lower(c) == LET ks == { k \in 1..26 : UpperCase[k] = c }
            IN  IF ks = {} THEN c ELSE LowerCase[CHOOSE k \in ks : TRUE]

LowerString(s) == [ i \in 1..Len(s) |-> Lower(s[i]) ]

\* The index of the last character of the longest run of characters of cs that
\* starts at s[i]; i - 1 when s[i] is not in cs. (\d+ and \s* are greedy, and
\* what follows them in the patterns can start with neither a digit nor a blank.)
RECURSIVE RunEnd(_, _, _)
RunEnd(s, i, cs) == IF i <= Len(s) /\ s[i] \in cs THEN RunEnd(s, i + 1, cs) ELSE i - 1

\* the literal lit matches at position i of s
LiteralAt(s, i, lit) ==
    i + Len(lit) - 1 <= Len(s) /\ SubSeq(s, i, i + Len(lit) - 1) = lit

\* (\d+)\s*<unit>s? at position i: the captured digits, or None
NumberUnitAt(s, i, unit) ==
    LET d == RunEnd(s, i, Digits)
        w == RunEnd(s, d + 1, Whitespace)
    IN  IF d >= i /\ LiteralAt(s, w + 1, unit) THEN Some(SubSeq(s, i, d)) ELSE None

Day     == << "d","a","y" >>
Hour    == << "h","o","u","r" >>
Minute  == << "m","i","n","u","t","e" >>
Expired == << "e","x","p","i","r","e","d" >>
NoneLit == << "n","o","n","e" >>

NoMatch == [ matched |-> FALSE, days |-> None, hours |-> None,
             minutes |-> None, expired |-> None ]

\* The match of GPFS_GRACE_REGEX that starts at position i: the alternatives
\* are tried in the order days, hours, minutes, expired.
GraceMatchAt(s, i) ==
    LET dy == NumberUnitAt(s, i, Day)
        hr == NumberUnitAt(s, i, Hour)
        mn == NumberUnitAt(s, i, Minute)
    IN  IF dy # None THEN [ NoMatch EXCEPT !.matched = TRUE, !.days = dy[1] ]
        ELSE IF hr # None THEN [ NoMatch EXCEPT !.matched = TRUE, !.hours = hr[1] ]
        ELSE IF mn # None THEN [ NoMatch EXCEPT !.matched = TRUE, !.minutes = mn[1] ]
        ELSE IF LiteralAt(s, i, Expired)
             THEN [ NoMatch EXCEPT !.matched = TRUE, !.expired = Expired ]
        ELSE NoMatch

\* GPFS_GRACE_REGEX.search(s): the match at the leftmost position that has one
RECURSIVE GraceSearchFrom(_, _)
GraceSearchFrom(s, i) ==
    IF i > Len(s) THEN NoMatch
    ELSE LET m == GraceMatchAt(s, i)
         IN  IF m.matched THEN m ELSE GraceSearchFrom(s, i + 1)

GPFS_GRACE_REGEX(s) == GraceSearchFrom(s, 1)

\* GPFS_NOGRACE_REGEX.search(s) is not None: 'none' anywhere, in any letter case
GPFS_NOGRACE_REGEX(s) ==
    LET low == LowerString(s)
    IN  \E i \in 1..Len(s) : LiteralAt(low, i, NoneLit)

DigitString == << "0", "1", "2", "3", "4", "5", "6", "7", "8", "9" >>
DigitValue(c) == (CHOOSE k \in 1..10 : DigitString[k] = c) - 1

\* int() of a string of digits
RECURSIVE int(_)
int(ds) == IF Len(ds) = 0 THEN 0
           ELSE 10 * int(SubSeq(ds, 1, Len(ds) - 1)) + DigitValue(ds[Len(ds)])

Raised == [ raised |-> TRUE, expired |-> <<FALSE, None>> ]
Decoded(e) == [ raised |-> FALSE, expired |-> e ]

\* Mutant: the older revision's policy, an unknown string is not-expired.
grace_to_expired_defaulting(grace_string) ==
    LET grace   == GPFS_GRACE_REGEX(grace_string)
    IN  IF ~grace.matched THEN Decoded(<<FALSE, None>>)
        ELSE IF grace.days # None THEN Decoded(<<TRUE, Some(int(grace.days) * 86400)>>)
        ELSE IF grace.hours # None THEN Decoded(<<TRUE, Some(int(grace.hours) * 3600)>>)
        ELSE IF grace.minutes # None THEN Decoded(<<TRUE, Some(int(grace.minutes) * 60)>>)
        ELSE IF grace.expired # None THEN Decoded(<<TRUE, Some(0)>>)
        ELSE Decoded(<<FALSE, None>>)

\* Mutant: hours are converted with the factor of minutes.
grace_to_expired_hours_as_minutes(grace_string) ==
    LET grace   == GPFS_GRACE_REGEX(grace_string)
        nograce == GPFS_NOGRACE_REGEX(grace_string)
    IN  IF nograce THEN Decoded(<<FALSE, None>>)
        ELSE IF grace.matched
        THEN IF grace.days # None THEN Decoded(<<TRUE, Some(int(grace.days) * 86400)>>)
             ELSE IF grace.hours # None THEN Decoded(<<TRUE, Some(int(grace.hours) * 60)>>)
             ELSE IF grace.minutes # None THEN Decoded(<<TRUE, Some(int(grace.minutes) * 60)>>)
             ELSE IF grace.expired # None THEN Decoded(<<TRUE, Some(0)>>)
             ELSE Raised
        ELSE Raised

\* The decoding of quota.blockGrace in _update_quota_entity: the expired tuple,
\* or the exception of logger.raiseException. The no-grace pattern is looked at
\* first; a captured group is a non-empty string, which Python takes as true.
grace_to_expired(grace_string) ==
    LET grace   == GPFS_GRACE_REGEX(grace_string)
        nograce == GPFS_NOGRACE_REGEX(grace_string)
    IN  IF nograce THEN Decoded(<<FALSE, None>>)
        ELSE IF grace.matched
        THEN IF grace.days # None THEN Decoded(<<TRUE, Some(int(grace.days) * 86400)>>)
             ELSE IF grace.hours # None THEN Decoded(<<TRUE, Some(int(grace.hours) * 3600)>>)
             ELSE IF grace.minutes # None THEN Decoded(<<TRUE, Some(int(grace.minutes) * 60)>>)
             ELSE IF grace.expired # None THEN Decoded(<<TRUE, Some(0)>>)
             ELSE Raised
        ELSE Raised

\* The arguments of the entity.update call of _update_quota_entity: timestamp is
\* passed as the seventh positional argument (files_used), the others default.
LineArgs(blockUsage, blockQuota, blockLimit, blockInDoubt, expired, timestamp) ==
    [ used          |-> blockUsage,
      soft          |-> blockQuota,
      hard          |-> blockLimit,
      doubt         |-> blockInDoubt,
      expired       |-> expired,
      files_used    |-> timestamp,
      files_soft    |-> 0,
      files_hard    |-> 0,
      files_doubt   |-> 0,
      files_expired |-> <<FALSE, None>>,
      timestamp     |-> None ]

\* The body of the loop of _update_quota_entity for one quota line:
\* [raised, entity].
update_quota_entity(ent, fileset_name, grace_string, blockUsage, timestamp) ==
    LET d == grace_to_expired(grace_string)
    IN  IF d.raised THEN [ raised |-> TRUE, entity |-> ent ]
        ELSE [ raised |-> FALSE,
               entity |-> update(ent, fileset_name,
                                 LineArgs(blockUsage, 100, 101, 0, d.expired, timestamp)) ]

\* ------------------------------------------------------- the checker's run
QUOTA_NOTIFICATION_CACHE_THRESHOLD == 7 * 86400

\* The users of the USR quota map (two Gent users, one user of another site)
\* and the filesets of the FILESET quota map, by name.
Users    == { <<"v","s","c","4","0">>, <<"v","s","c","4","1">>, <<"v","s","c","3","0">> }
Filesets == { <<"g","v","o","1">> }
Subjects == Users \cup Filesets

\* path_template['user'][0]
UserPathTemplate == <<"v","s","c","4">>

\* The times at which the clock is read: the first run is at 0, a later run
\* at the same time or around the threshold.
ClockValues ==
    {0} \cup { QUOTA_NOTIFICATION_CACHE_THRESHOLD + d : d \in {-1, 0, 1} }

\* The blockGrace of the quota line of a subject in a run.
RunGraceInputs == { NoneLit, Expired, <<"x">> }

\* FileCache(filename, True): the shelf read from the file is retained.
FileCache_open(file) == file

\* FileCache.update(key, data, threshold) at time now: [updated, shelf].
FileCache_update(shelf, key, data, threshold, now) ==
    IF key \notin DOMAIN shelf
    THEN [ updated |-> TRUE, shelf |-> DictSet(shelf, key, <<now, data>>) ]
    ELSE IF now - shelf[key][1] < threshold
    THEN [ updated |-> FALSE, shelf |-> shelf ]
    ELSE [ updated |-> TRUE, shelf |-> DictSet(shelf, key, <<now, data>>) ]

\* FileCache.close(): the content written to the file.
FileCache_close(shelf) == shelf

\* Mutant: the threshold of the quota stores (0) is passed.
cache_update_item_threshold_0(shelf, item, quota, now) ==
    FileCache_update(shelf, item, quota, 0, now)

\* Mutant: twice the threshold is passed.
cache_update_item_two_weeks(shelf, item, quota, now) ==
    FileCache_update(shelf, item, quota, 2 * QUOTA_NOTIFICATION_CACHE_THRESHOLD, now)

\* notify_exceeding_items: updated = cache.update(item, quota, THRESHOLD)
cache_update_item(shelf, item, quota, now) ==
    FileCache_update(shelf, item, quota, QUOTA_NOTIFICATION_CACHE_THRESHOLD, now)

\* notify(): whether a mail is sent for item (a VO has at least one moderator)
notify(item, dry) ==
    IF StartsWith(item, <<"g","v","o">>) THEN ~dry
    ELSE IF StartsWith(item, <<"g","p","r">>) THEN FALSE
    ELSE IF StartsWith(item, <<"v","s","c">>) THEN ~dry
    ELSE FALSE

\* Mutant: every subject is appended to the exceeding list.
append_if_exceeding_always(exceeding_items, name, quota) == Append(exceeding_items, name)

\* process_user_quota / process_fileset_quota:
\* if quota.exceeds(): exceeding.append((name, quota))
append_if_exceeding(exceeding_items, name, quota) ==
    IF exceeds(quota) THEN Append(exceeding_items, name) ELSE exceeding_items

\* process_user_quota: only users whose name starts with 'vsc4' are handled
is_handled_user(user_name) == StartsWith(user_name, <<"v","s","c","4">>)

NoCheck   == [ item |-> <<>>, prior |-> None, now |-> 0, updated |-> FALSE,
               notified |-> FALSE, entry |-> None ]
NoFailure == [ phase |-> "none", subject |-> <<>> ]
NoEntries == [ filesets |-> <<>>, users |-> <<>> ]

RunIdle ==
    /\ clock = 0
    /\ runs = 0
    /\ pc = "idle"
    /\ dry_run = FALSE
    /\ quota_storage_map = <<>>
    /\ pending = {}
    /\ exceeding = NoEntries
    /\ target = "none"
    /\ todo = <<>>
    /\ cache = <<>>
    /\ cacheFile = NoEntries
    /\ mails = {}
    /\ checked = {}
    /\ lastCheck = NoCheck
    /\ failure = NoFailure
    /\ written = NoEntries
    /\ everRaised = FALSE

\* --------------------------------------------- the output of the -Y commands
\* str.split(sep) for a separator of one character
RECURSIVE split(_, _)
split(s, sep) ==
    IF \A i \in 1..Len(s) : s[i] # sep THEN << s >>
    ELSE LET p == CHOOSE i \in 1..Len(s) : s[i] = sep /\ \A j \in 1..(i - 1) : s[j] # sep
         IN  << SubSeq(s, 1, p - 1) >> \o split(SubSeq(s, p + 1, Len(s)), sep)

\* the characters str.strip() removes
StripChars == { " ", "\n", "\t" }

\* The index of the first character of the longest run of characters of cs that
\* ends at s[i]; i + 1 when s[i] is not in cs.
RECURSIVE RunStart(_, _, _)
RunStart(s, i, cs) == IF i >= 1 /\ s[i] \in cs THEN RunStart(s, i - 1, cs) ELSE i + 1

\* str.strip()
strip(s) == LET a == RunEnd(s, 1, StripChars) + 1
            IN  IF a > Len(s) THEN << >>
                ELSE SubSeq(s, a, RunStart(s, Len(s), StripChars) - 1)

\* the escapes of the output of the GPFS commands: %3A is a colon
PercentCodes == { << <<"3","A">>, ":" >>, << <<"2","5">>, "%" >>, << <<"2","0">>, " " >> }

\* percentdecode (unquote): every %XX escape becomes its character
RECURSIVE percentdecode(_)
percentdecode(y) ==
    IF Len(y) = 0 THEN << >>
    ELSE LET cs == IF y[1] = "%" /\ Len(y) >= 3
                   THEN { c \in PercentCodes : c[1] = << y[2], y[3] >> }
                   ELSE {}
         IN  IF cs # {}
             THEN << (CHOOSE c \in cs : TRUE)[2] >> \o percentdecode(SubSeq(y, 4, Len(y)))
             ELSE << y[1] >> \o percentdecode(Tail(y))

\* clean(line) of split_output_lines; line[-1] of an empty line is an IndexError
clean_raises(header_ends_in_colon, line) == ~header_ends_in_colon /\ Len(line) = 0

clean(header_ends_in_colon, line) ==
    IF ~header_ends_in_colon /\ line[Len(line)] = ":"
    THEN SubSeq(line, 1, Len(line) - 1)
    ELSE line

\* split_output_lines(out), out being the output of the command, a string:
\* out[0] is its first character, and out[0][-1] is that character again.
split_output_lines(out) ==
    IF Len(out) = 0 THEN [ raised |-> TRUE, rows |-> << >> ]
    ELSE LET header_ends_in_colon == (out[1] = ":")
             lines == split(strip(out), "\n")
         IN  IF \E k \in 1..Len(lines) : clean_raises(header_ends_in_colon, lines[k])
             THEN [ raised |-> TRUE, rows |-> << >> ]
             ELSE [ raised |-> FALSE,
                    rows   |-> [ k \in 1..Len(lines) |->
                                 LET ys == split(strip(clean(header_ends_in_colon, lines[k])), ":")
                                 IN  [ j \in 1..Len(ys) |-> percentdecode(ys[j]) ] ] ]

\* find_sublist_index(ls, sub_ls): the first index (from 0) at which sub_ls
\* starts in ls, or None
find_sublist_index(ls, sub_ls) ==
    LET at == { i \in 0..(Len(ls) - 1) :
                  i + Len(sub_ls) <= Len(ls) /\ SubSeq(ls, i + 1, i + Len(sub_ls)) = sub_ls }
    IN  IF at = {} THEN None ELSE Some(CHOOSE i \in at : \A j \in at : i <= j)

\* str.endswith
endswith(s, suffix) ==
    Len(suffix) <= Len(s) /\ SubSeq(s, Len(s) - Len(suffix) + 1, Len(s)) = suffix

\* str.rstrip(chars): the trailing characters that occur in chars are removed
rstrip(s, chars) ==
    SubSeq(s, 1, RunStart(s, Len(s), { chars[i] : i \in 1..Len(chars) }) - 1)

\* [''] * n (the empty list when n is not positive)
EmptyFields(n) == [ i \in 1..n |-> << >> ]

\* lst[a:] of Python for a list and an index from 0
From(lst, a) == SubSeq(lst, a + 1, Len(lst))

\* fixup_executeY_line(fields, description_count): [line, remainder], or the
\* exception of raiseException
fixup_executeY_line(fields, description_count) ==
    LET expected_start_fields == SubSeq(fields, 1, 6)
        ls        == From(fields, 6)
        sub_ls    == From(expected_start_fields, 1)
        sub_index == find_sublist_index(ls, sub_ls)
    IN  IF sub_index = None THEN [ raised |-> TRUE, lines |-> << >> ]
        ELSE LET line        == expected_start_fields \o SubSeq(ls, 1, sub_index[1])
                 remainder   == From(ls, sub_index[1])
                 first_field == fields[1]
             IN  IF Len(line) > description_count THEN [ raised |-> TRUE, lines |-> << >> ]
                 ELSE IF remainder[1] = first_field
                 THEN [ raised |-> FALSE,
                        lines  |-> << line \o EmptyFields(description_count - Len(line)),
                                      remainder >> ]
                 ELSE IF endswith(line[Len(line)], first_field)
                 THEN LET fixed == [ line EXCEPT ![Len(line)] = rstrip(@, first_field) ]
                      IN  [ raised |-> FALSE,
                            lines  |-> << fixed \o EmptyFields(description_count - Len(line)),
                                          << first_field >> \o remainder >> ]
                 ELSE [ raised |-> TRUE, lines |-> << >> ]

\* fields = [(len(x), x) for x in ...]; row is the place of the line among the
\* lines given (0 for a line made by the repair): it stands for the identity of
\* the list object, which the loop of _assemble_fields extends in place.
CountedFields(lines) ==
    [ k \in 1..Len(lines) |-> [ count |-> Len(lines[k]), line |-> lines[k], row |-> k ] ]

Max(ns) == CHOOSE n \in ns : \A m \in ns : m <= n
Min(ns) == CHOOSE n \in ns : \A m \in ns : n <= m

\* fields.index((field_count, line)): the first entry equal to the pair
IndexOf(fields, field_count, line) ==
    CHOOSE i \in 1..Len(fields) :
        /\ fields[i].count = field_count /\ fields[i].line = line
        /\ \A j \in 1..(i - 1) : ~(fields[j].count = field_count /\ fields[j].line = line)

\* The loop of _assemble_fields over fields[1:], as it was when the loop began,
\* from its k-th entry on: a shorter line is extended in place by
\* maximum_field_count - field_count fields, a longer one is replaced in fields
\* by the two lines of fixup_executeY_line. The lines put into fields are not
\* visited by the loop.
RECURSIVE RepairFrom(_, _, _, _, _)
RepairFrom(fields, visited, k, maximum_field_count, description_field_count) ==
    IF k > Len(visited) THEN [ raised |-> FALSE, fields |-> fields ]
    ELSE LET field_count == visited[k].count
             line        == visited[k].line
         IN  IF field_count = description_field_count
             THEN RepairFrom(fields, visited, k + 1, maximum_field_count,
                             description_field_count)
             ELSE IF field_count < description_field_count
             THEN LET at == CHOOSE i \in 1..Len(fields) : fields[i].row = visited[k].row
                  IN  RepairFrom([ fields EXCEPT ![at].line =
                                     @ \o EmptyFields(maximum_field_count - field_count) ],
                                 visited, k + 1, maximum_field_count,
                                 description_field_count)
             ELSE LET fixed_lines == fixup_executeY_line(line, description_field_count)
                      i == IndexOf(fields, field_count, line)
                  IN  IF fixed_lines.raised THEN [ raised |-> TRUE, fields |-> fields ]
                      ELSE RepairFrom(
                             SubSeq(fields, 1, i - 1)
                               \o [ n \in 1..Len(fixed_lines.lines) |->
                                      [ count |-> Len(fixed_lines.lines[n]),
                                        line  |-> fixed_lines.lines[n],
                                        row   |-> 0 ] ]
                               \o SubSeq(fields, i + 1, Len(fields)),
                             visited, k + 1, maximum_field_count, description_field_count)

\* the repair of _assemble_fields: only when the field counts differ
Repair(fields) ==
    LET field_counts == { fields[k].count : k \in 1..Len(fields) }
    IN  IF Cardinality(field_counts) > 1
        THEN RepairFrom(fields, Tail(fields), 1, Max(field_counts), fields[1].count)
        ELSE [ raised |-> FALSE, fields |-> fields ]

\* The values res[name] receives for the names at the header places j..: for
\* each place in turn, the field at that place of every line after the first.
RECURSIVE ColumnFrom(_, _, _)
ColumnFrom(lines, name, j) ==
    IF j > Len(lines[1]) THEN << >>
    ELSE (IF lines[1][j] = name
          THEN [ k \in 1..(Len(lines) - 1) |-> lines[k + 1][j] ]
          ELSE << >>) \o ColumnFrom(lines, name, j + 1)

\* _assemble_fields(fields, out): the MonoidDict res, or the exception; lines
\* are the lines of fields after the repair.
assemble_fields(fields) ==
    LET repaired == Repair(fields)
        lines    == [ k \in 1..Len(repaired.fields) |-> repaired.fields[k].line ]
        places   == { j \in 7..Len(lines[1]) : lines[1][j] # << >> }
    IN  IF repaired.raised THEN [ raised |-> TRUE, lines |-> << >>, res |-> << >> ]
        ELSE IF \E j \in places : \E k \in 2..Len(lines) : Len(lines[k]) < j
        THEN [ raised |-> TRUE, lines |-> lines, res |-> << >> ]
        ELSE [ raised |-> FALSE,
               lines  |-> lines,
               res    |-> IF Len(lines) < 2 THEN << >>
                          ELSE [ name \in { lines[1][j] : j \in places } |->
                                   ColumnFrom(lines, name, 7) ] ]

\* expectedheader of _executeY
expectedheader(name) ==
    << name, << >>, <<"H","E","A","D","E","R">>, <<"v","e","r","s","i","o","n">>, <<"r","e","s","e","r","v","e","d">>, <<"r","e","s","e","r","v","e","d">> >>

\* dropwhile(lambda line: expectedheader != line[:6], what)
RECURSIVE dropwhile_not_header(_, _)
dropwhile_not_header(name, what) ==
    IF Len(what) = 0 THEN << >>
    ELSE IF SubSeq(what[1], 1, IF Len(what[1]) < 6 THEN Len(what[1]) ELSE 6)
              # expectedheader(name)
    THEN dropwhile_not_header(name, Tail(what))
    ELSE what

\* the header types of mmhealth
HeaderTypes == << <<"S","t","a","t","e">>, <<"E","v","e","n","t">> >>

\* [x for x in what if x[1] == typ]
RECURSIVE OfType(_, _)
OfType(what, typ) ==
    IF Len(what) = 0 THEN << >>
    ELSE (IF what[1][2] = typ THEN << what[1] >> ELSE << >>) \o OfType(Tail(what), typ)

\* error is the class of the exception raised: log.raiseException raises
\* Exception unless it is given a class
NoResult == [ raised |-> TRUE, error |-> "Exception", grouped |-> FALSE, what |-> << >>,
              lines |-> << >>, res |-> << >>, rest |-> << >> ]

\* return self._assemble_fields(fields, out) of the lines retained
executeY_retained(what, a) ==
    [ raised |-> a.raised, error |-> IF a.raised THEN "Exception" ELSE "none",
      grouped |-> FALSE, what |-> what, lines |-> a.lines, res |-> a.res, rest |-> << >> ]

\* rest of the two header types, each assembled by _assemble_fields
executeY_rest(what, state, event) ==
    IF state.raised \/ event.raised THEN [ NoResult EXCEPT !.what = what ]
    ELSE [ raised |-> FALSE, error |-> "none", grouped |-> TRUE, what |-> what,
           lines |-> state.lines \o event.lines, res |-> << >>,
           rest |-> [ typ \in { <<"S","t","a","t","e">>, <<"E","v","e","n","t">> } |->
                        IF typ = <<"S","t","a","t","e">> THEN state.res ELSE event.res ] ]

\* the loop over the header types of mmhealth: x[1] of a line of one field is
\* an IndexError, a type without lines raises too
executeY_header_types(what) ==
    IF \E k \in 1..Len(what) : Len(what[k]) < 2
    THEN [ NoResult EXCEPT !.what = what, !.error = "GpfsOperationError" ]
    ELSE IF \E t \in 1..2 : Len(OfType(what, HeaderTypes[t])) = 0
    THEN [ NoResult EXCEPT !.what = what, !.error = "GpfsOperationError" ]
    ELSE executeY_rest(what,
                       assemble_fields(CountedFields(OfType(what, HeaderTypes[1]))),
                       assemble_fields(CountedFields(OfType(what, HeaderTypes[2]))))

\* _executeY once the lines are split and those before the header dropped
executeY_fields(what, retained) ==
    IF Len(retained) # 0
    THEN executeY_retained(what, assemble_fields(CountedFields(retained)))
    ELSE executeY_header_types(what)

\* _executeY from what = split_output_lines(out) on
executeY_what(name, split_) ==
    IF split_.raised THEN [ NoResult EXCEPT !.error = "IndexError" ]
    ELSE executeY_fields(split_.rows, dropwhile_not_header(name, split_.rows))

\* _executeY(name, opts) from the output of the command on: the columns res
\* (or, per header type, rest), or the exception. what are the lines as split,
\* lines the lines after the repair.
executeY(name, out) == executeY_what(name, split_output_lines(out))

\* Mutant: the key is the component alone.
comp_entity_of_component(component, entityname) == component

\* '%s_%s' % ident for ident in zip(states['component'], states['entityname'])
comp_entity(component, entityname) == component \o << "_" >> \o entityname

\* states[name] of a MonoidDict of lists: the empty list for a name it has not
Get(states, name) == IF name \in DOMAIN states THEN states[name] ELSE << >>

\* dict(zip(comp_entities, statuses)): zip stops at the shorter list, and of
\* two entries with the same key the later stays
dict_zip(components, entitynames, statuses) ==
    LET n == Min({ Len(components), Len(entitynames), Len(statuses) })
    IN  [ key \in { comp_entity(components[k], entitynames[k]) : k \in 1..n } |->
            statuses[Max({ k \in 1..n : comp_entity(components[k], entitynames[k]) = key })] ]

\* get_mmhealth_state from res = self._executeY('mmhealth', opts) on. res['State']
\* of the columns of a canonical header is the empty list, which has no
\* 'component'.
mmhealth_state(r) ==
    IF r.raised \/ ~r.grouped THEN [ raised |-> TRUE, state |-> << >> ]
    ELSE [ raised |-> FALSE,
           state  |-> dict_zip(Get(r.rest[<<"S","t","a","t","e">>], <<"c","o","m","p","o","n","e","n","t">>),
                               Get(r.rest[<<"S","t","a","t","e">>], <<"e","n","t","i","t","y","n","a","m","e">>),
                               Get(r.rest[<<"S","t","a","t","e">>], <<"s","t","a","t","u","s">>)) ]

\* get_mmhealth_state(): '<component>_<entityname>' of each State line mapped
\* to its status, or the exception
get_mmhealth_state(output) == mmhealth_state(executeY(<<"m","m","h","e","a","l","t","h">>, output))

NoCommand == [ name |-> << >>, pre |-> << >>, header |-> << >>, rows |-> << >>,
               merged |-> {}, header_colon |-> FALSE, row_colon |-> FALSE ]
Pending   == [ status |-> "pending", r |-> NoResult ]
NoHealth  == [ status |-> "pending", raised |-> FALSE, state |-> << >> ]

NoSnapCall == [ op |-> "none", snapname |-> << >>, before |-> << >>, listed |-> << >>,
                dry_run |-> FALSE, ec |-> 0, ran |-> << >>, returned |-> "none" ]

SnapIdle ==
    /\ snapshots = << >>
    /\ snapCall = NoSnapCall

NoQuotaArgs == [ backend |-> "none" ]
NoQuotaCall == [ status |-> "pending", raised |-> FALSE, opts |-> << >> ]

QuotaIdle ==
    /\ quotaArgs = NoQuotaArgs
    /\ quotaCall = NoQuotaCall

NoLfsCall == [ op |-> "none" ]

LfsIdle ==
    /\ lfsDirs = {}
    /\ lfsParents = {}
    /\ lfsCache = << >>
    /\ lfsCall = NoLfsCall

NoSymCall == [ op |-> "none" ]

SymIdle ==
    /\ symFs = << >>
    /\ symCall = NoSymCall
    /\ symPrev = NoSymCall

NoStatCall == [ op |-> "none" ]

StatIdle ==
    /\ statDir = << >>
    /\ statCall = NoStatCall

NoOperation == [ op |-> "idle" ]

FlagIdle ==
    /\ ignorerealpathmismatch = FALSE
    /\ flagPc = NoOperation
    /\ flagOutcome = "none"

NoGpfsCall == [ op |-> "none" ]

GpfsIdle ==
    /\ gpfsFilesystems = << >>
    /\ gpfslocalfilesystems = << >>
    /\ gpfslocalfilesets = << >>
    /\ gpfsCall = NoGpfsCall

NothingDone == [ requested |-> << >>, processed |-> {}, skipped |-> {} ]

MainIdle ==
    /\ mainFs = << >>
    /\ mainPc = "idle"
    /\ mainTodo = << >>
    /\ mainDone = NothingDone
    /\ mainOutcome = "none"

OpsIdle ==
    /\ SnapIdle
    /\ QuotaIdle
    /\ LfsIdle
    /\ SymIdle
    /\ StatIdle
    /\ FlagIdle
    /\ GpfsIdle
    /\ MainIdle

ListIdle ==
    /\ listing = "none"
    /\ devices = << >>
    /\ info = << >>

ParseIdle ==
    /\ command = NoCommand
    /\ stdout = << >>
    /\ result = Pending
    /\ health = NoHealth
    /\ ListIdle
    /\ OpsIdle

\* ------------------------------------------------------- SpecEntity
NoOp == [ op |-> "init", fileset |-> <<>>, args |-> <<>>, existed |-> FALSE ]

GraceIdle == /\ blockGrace = <<>>
             /\ graceOutcome = "pending"
             /\ entityBefore = NewQuotaEntity

InitEntity ==
    /\ entity = NewQuotaEntity
    /\ anyExpiredUpdate = FALSE
    /\ updatedFilesets = {}
    /\ removedAny = FALSE
    /\ lastOp = NoOp
    /\ GraceIdle
    /\ RunIdle
    /\ ParseIdle

\* entity.update(fileset, ...) with any arguments
Update ==
    \E f \in FilesetNames, a \in UpdateArgs :
        /\ entity' = update(entity, f, a)
        /\ anyExpiredUpdate' = (anyExpiredUpdate \/ a.expired[1] \/ a.files_expired[1])
        /\ updatedFilesets' = updatedFilesets \cup {f}
        /\ lastOp' = [ op |-> "update", fileset |-> f, args |-> a,
                        existed |-> f \in DOMAIN entity.quota_map ]
        /\ UNCHANGED <<removedAny, graceVars, runVars, parseVars, opsVars>>

\* sanitize_quota_information(fileset_name, entity)
Sanitize ==
    \E p \in SanitizePrefixes :
        /\ entity' = sanitize_quota_information(p, entity)
        /\ removedAny' = (removedAny \/ DOMAIN entity'.quota_map # DOMAIN entity.quota_map)
        /\ lastOp' = [ op |-> "sanitize", fileset |-> p, args |-> <<>>, existed |-> FALSE ]
        /\ UNCHANGED <<anyExpiredUpdate, updatedFilesets, graceVars, runVars, parseVars, opsVars>>

\* The entity is discarded at the end of the pass and created anew.
NewPass ==
    /\ lastOp.op # "init"
    /\ entity' = NewQuotaEntity
    /\ anyExpiredUpdate' = FALSE
    /\ updatedFilesets' = {}
    /\ removedAny' = FALSE
    /\ lastOp' = NoOp
    /\ UNCHANGED <<graceVars, runVars, parseVars, opsVars>>

NextEntity == Update \/ Sanitize \/ NewPass

SpecEntity == InitEntity /\ [][NextEntity]_vars

\* C1: exceeds() is true if and only if some snapshot currently stored in
\* quota_map has expired[0] or files_expired[0] set.
C1_ExceedsIffStoredExpired == exceeds(entity) = SomeStoredExpired(entity)

\* C1 (the part that does hold): a stored expired snapshot implies exceeds().
C1_StoredExpiredImpliesExceeds == SomeStoredExpired(entity) => exceeds(entity)

\* C1, the failing case: the flag is set and no stored snapshot is expired.
C1_StaleFlagReached ==
    exceeds(entity) /\ ~SomeStoredExpired(entity) /\ lastOp.op \in {"update", "sanitize"}

\* C2: within a pass exceeds() is true iff some update so far carried a true
\* expired flag, and no later update or removal of the pass resets it.
C2_ExceedsIffAnyExpiredUpdate ==
    /\ [](exceeds(entity) = anyExpiredUpdate)
    /\ [][(exceeds(entity) /\ lastOp'.op # "init") => exceeds(entity')]_vars

\* C2 witness: a non-expired update of the very fileset whose expired update
\* set the flag has happened, and the flag is still set.
C2_Witness ==
    /\ lastOp.op = "update"
    /\ lastOp.existed
    /\ ~lastOp.args.expired[1] /\ ~lastOp.args.files_expired[1]
    /\ anyExpiredUpdate
    /\ ~SomeStoredExpired(entity)
    /\ exceeds(entity)

\* C3: update(fileset, ...) stores exactly the new values under fileset and
\* leaves every other snapshot as it was; without removals quota_map has one
\* entry per distinct fileset name updated; with no expired update the flag is
\* false.
C3_UpdateOverwrites ==
    /\ [](~removedAny => DOMAIN entity.quota_map = updatedFilesets)
    /\ [](~anyExpiredUpdate => ~entity.exceed)
    /\ [][lastOp'.op = "update" =>
            /\ entity'.quota_map[lastOp'.fileset] = QuotaInformation(lastOp'.args)
            /\ DOMAIN entity'.quota_map = DOMAIN entity.quota_map \cup {lastOp'.fileset}
            /\ \A g \in DOMAIN entity.quota_map \ {lastOp'.fileset} :
                   entity'.quota_map[g] = entity.quota_map[g]]_vars

\* C3 witness: two filesets are stored, the last update overwrote an existing
\* snapshot with different values, and nothing was expired (test_quota_update).
C3_Witness ==
    /\ lastOp.op = "update"
    /\ lastOp.existed
    /\ Cardinality(DOMAIN entity.quota_map) = 2
    /\ Cardinality(updatedFilesets) = 2
    /\ ~removedAny
    /\ lastOp.args.doubt = 0
    /\ ~entity.exceed

\* ------------------------------------------------------- SpecGrace
\* Grace strings are concatenations of at most MaxTokens of these tokens.
GraceTokens ==
    { <<"7">>, <<"1","2"," ">>, Day, Day \o <<"s">>, Hour, Hour \o <<"s">>,
      Minute, Minute \o <<"s">>, Expired, NoneLit, <<"N","o","N","E">>, <<"x">> }

RECURSIVE Concat(_)
Concat(ts) == IF Len(ts) = 0 THEN <<>> ELSE Head(ts) \o Concat(Tail(ts))

GraceStrings ==
    { Concat(ts) : ts \in UNION { [1..n -> GraceTokens] : n \in 0..MaxTokens } }

\* The entity before the line: fresh, or holding the snapshot of an earlier line.
EntitiesBefore ==
    { NewQuotaEntity,
      update(NewQuotaEntity, <<"v","s","c","4","0">>,
             LineArgs(10, 100, 101, 0, <<FALSE, None>>, 20180901)),
      update(NewQuotaEntity, <<"g","v","o","1">>,
             LineArgs(20, 100, 101, 0, <<TRUE, Some(0)>>, 20180901)) }

InitGrace ==
    /\ entity \in EntitiesBefore
    /\ entityBefore = entity
    /\ blockGrace \in GraceStrings
    /\ graceOutcome = "pending"
    /\ anyExpiredUpdate = FALSE
    /\ updatedFilesets = {}
    /\ removedAny = FALSE
    /\ lastOp = NoOp
    /\ RunIdle
    /\ ParseIdle

\* One iteration of the loop of _update_quota_entity.
UpdateQuotaEntityLine ==
    /\ graceOutcome = "pending"
    /\ \E f \in { <<"v","s","c","4","0">>, <<"g","v","o","1">> } :
         LET r == update_quota_entity(entity, f, blockGrace, 10, 20180902)
         IN  /\ entity' = r.entity
             /\ graceOutcome' = IF r.raised THEN "raised" ELSE "stored"
             /\ lastOp' = [ op |-> "line", fileset |-> f, args |-> <<>>,
                            existed |-> f \in DOMAIN entity.quota_map ]
    /\ UNCHANGED <<anyExpiredUpdate, updatedFilesets, removedAny, blockGrace, entityBefore, runVars, parseVars, opsVars>>

NextGrace == UpdateQuotaEntityLine

SpecGrace == InitGrace /\ [][NextGrace]_vars

\* The documented grammar of grace strings, read off the string itself:
\* '<N> <unit>' or '<N> <unit>s' (any number of blanks after the count),
\* 'expired', and 'none' in any letter case.
AllDigits(s) == Len(s) > 0 /\ \A i \in 1..Len(s) : s[i] \in Digits

IsNumberForm(s, unit) ==
    \E d \in 1..Len(s) : \E w \in d..Len(s) :
        /\ AllDigits(SubSeq(s, 1, d))
        /\ \A i \in (d + 1)..w : s[i] = " "
        /\ SubSeq(s, w + 1, Len(s)) \in { unit, unit \o <<"s">> }

\* <N> of a number form
CountOf(s) == int(SubSeq(s, 1, CHOOSE d \in 1..Len(s) :
                     AllDigits(SubSeq(s, 1, d)) /\ s[d + 1] \notin Digits))

IsDocumentedForm(s) ==
    \/ IsNumberForm(s, Day) \/ IsNumberForm(s, Hour) \/ IsNumberForm(s, Minute)
    \/ s = Expired
    \/ LowerString(s) = NoneLit

\* the expired tuple stored for the quota line that was processed
StoredExpired == entity.quota_map[lastOp.fileset].expired

\* C9: '<N> day(s)' decodes to (True, N*86400), '<N> hour(s)' to (True, N*3600),
\* '<N> minute(s)' to (True, N*60), 'expired' to (True, 0), 'none' in any letter
\* case to (False, None); a result that is not expired has no remaining value.
C9_GraceDecoding ==
    graceOutcome # "pending" =>
        /\ IsDocumentedForm(blockGrace) => graceOutcome = "stored"
        /\ IsNumberForm(blockGrace, Day) =>
              StoredExpired = <<TRUE, Some(CountOf(blockGrace) * 86400)>>
        /\ IsNumberForm(blockGrace, Hour) =>
              StoredExpired = <<TRUE, Some(CountOf(blockGrace) * 3600)>>
        /\ IsNumberForm(blockGrace, Minute) =>
              StoredExpired = <<TRUE, Some(CountOf(blockGrace) * 60)>>
        /\ blockGrace = Expired => StoredExpired = <<TRUE, Some(0)>>
        /\ LowerString(blockGrace) = NoneLit => StoredExpired = <<FALSE, None>>
        /\ graceOutcome = "stored" => (~StoredExpired[1] => StoredExpired[2] = None)

\* C9 witness: '12 hours' was decoded and stored as (True, 43200).
C9_Witness ==
    /\ graceOutcome = "stored"
    /\ blockGrace = <<"1","2"," ">> \o Hour \o <<"s">>
    /\ StoredExpired = <<TRUE, Some(43200)>>

\* C10: a grace string that is none of the documented forms raises, and no
\* snapshot is stored for its quota line.
C10_UndocumentedRaises ==
    (graceOutcome # "pending" /\ ~IsDocumentedForm(blockGrace)) =>
        (graceOutcome = "raised" /\ entity = entityBefore)

\* C10, the part that holds: a string in which neither pattern is found
\* anywhere raises and stores nothing.
C10_UnmatchedRaises ==
    (graceOutcome # "pending" /\ ~GPFS_NOGRACE_REGEX(blockGrace)
                              /\ ~GPFS_GRACE_REGEX(blockGrace).matched) =>
        (graceOutcome = "raised" /\ entity = entityBefore)

\* the counts N of the places of s where (\d+)\s*<unit>s? matches
FoundCounts(s, unit) ==
    { int(NumberUnitAt(s, i, unit)[1]) :
        i \in { j \in 1..Len(s) : NumberUnitAt(s, j, unit) # None } }

FoundExpired(s) == \E i \in 1..Len(s) : LiteralAt(s, i, Expired)

\* the number of the five patterns that are found in s
PatternsFound(s) ==
    Cardinality({ u \in {Day, Hour, Minute} : FoundCounts(s, u) # {} })
      + (IF FoundExpired(s) THEN 1 ELSE 0)
      + (IF GPFS_NOGRACE_REGEX(s) THEN 1 ELSE 0)

\* the results the precedence days, hours, minutes, 'expired', 'none' allows
ByPrecedence(s) ==
    IF FoundCounts(s, Day) # {}
    THEN { <<TRUE, Some(n * 86400)>> : n \in FoundCounts(s, Day) }
    ELSE IF FoundCounts(s, Hour) # {}
    THEN { <<TRUE, Some(n * 3600)>> : n \in FoundCounts(s, Hour) }
    ELSE IF FoundCounts(s, Minute) # {}
    THEN { <<TRUE, Some(n * 60)>> : n \in FoundCounts(s, Minute) }
    ELSE IF FoundExpired(s) THEN { <<TRUE, Some(0)>> }
    ELSE { <<FALSE, None>> }

\* C11: a grace string in which more than one pattern is found decodes as the
\* first of them in the order days, hours, minutes, 'expired', 'none'.
C11_FirstPatternInPrecedence ==
    (graceOutcome # "pending" /\ PatternsFound(blockGrace) > 1) =>
        /\ graceOutcome = "stored"
        /\ StoredExpired \in ByPrecedence(blockGrace)

\* C11, what the code does: 'none' anywhere wins over every other pattern, and
\* without it the leftmost match decides, whatever its pattern.
C11_NoneFirstThenLeftmost ==
    (graceOutcome # "pending" /\ PatternsFound(blockGrace) > 1) =>
        /\ graceOutcome = "stored"
        /\ GPFS_NOGRACE_REGEX(blockGrace) => StoredExpired = <<FALSE, None>>
        /\ (~GPFS_NOGRACE_REGEX(blockGrace) /\ LiteralAt(blockGrace, 1, Expired))
              => StoredExpired = <<TRUE, Some(0)>>

\* ------------------------------------------------------- SpecParse
\* The -Y commands of the model: name is the tool, header the fields of its
\* header line (none: the tool prints no such line), rows the fields of the
\* lines it prints after it, still percent-encoded, pre the lines before it;
\* the lines i and i + 1 of rows with i in merged come without a newline between
\* them, and header_colon / row_colon tell whether the lines end in a colon.
RECURSIVE JoinWith(_, _)
JoinWith(strs, sep) ==
    IF Len(strs) = 0 THEN << >>
    ELSE IF Len(strs) = 1 THEN strs[1]
    ELSE strs[1] \o sep \o JoinWith(Tail(strs), sep)

LineText(fields, colon) == JoinWith(fields, << ":" >>) \o (IF colon THEN << ":" >> ELSE << >>)

RECURSIVE RowsText(_, _, _)
RowsText(cmd, i, n) ==
    IF i > n THEN << >>
    ELSE LineText(cmd.rows[i], cmd.row_colon)
           \o (IF i \in cmd.merged THEN << >> ELSE << "\n" >>)
           \o RowsText(cmd, i + 1, n)

OutputOf(cmd) ==
    JoinWith(cmd.pre \o << << >> >>, << "\n" >>)
      \o (IF cmd.header = << >> THEN << >>
          ELSE LineText(cmd.header, cmd.header_colon) \o << "\n" >>)
      \o RowsText(cmd, 1, Len(cmd.rows))

MMLSFS   == <<"m","m","l","s","f","s">>
MMHEALTH == <<"m","m","h","e","a","l","t","h">>

DataRow(name, values) == << name, << >>, << "0" >>, << "1" >>, << >>, << >> >> \o values

\* the column names of the header lines
Headers == { << <<"n","a","m","e">>, <<"v","a","l">> >>, << <<"n","a","m","e">>, << >>, <<"v","a","l">> >>, << <<"v","a","l">>, <<"v","a","l">> >> }

\* the values of the data lines: two values, one with an escaped colon, one
\* made of letters of the tool name, and a line with one value only
FullRows  == { << <<"f","s","1">>, <<"1","0">> >>, << <<"f","s","2">>, <<"m","s">> >>, << <<"f","s","4">>, <<"1","%","3","A","2">> >> }
ShortRows == { << <<"f","3">> >> }

PreambleLines == { << >>, << <<"n","o","t","e">> >>, << <<":","n","o","t","e">> >> }

SeqsUpTo(S, n) == UNION { [ 1..m -> S ] : m \in 0..n }

\* Outputs with and without preamble, colons at the end of the lines and a
\* repeated header line; no merged lines.
PlainCommands ==
    { [ name |-> MMLSFS, pre |-> p, header |-> expectedheader(MMLSFS) \o h, rows |-> rs,
        merged |-> {}, header_colon |-> hc, row_colon |-> rc ] :
        p \in PreambleLines, h \in Headers, hc \in BOOLEAN, rc \in BOOLEAN,
        rs \in SeqsUpTo({ DataRow(MMLSFS, v) : v \in FullRows \cup ShortRows }
                          \cup { expectedheader(MMLSFS) \o << <<"n","a","m","e">>, <<"v","a","l">> >> },
                        MaxRows - 1) }

\* Outputs in which the lines a..b of rows are printed without a newline
\* between them.
MergeChoices ==
    { c \in { << rs, a..(b - 1) >> :
                rs \in SeqsUpTo({ DataRow(MMLSFS, v) :
                                    v \in { << <<"f","s","1">>, <<"1","0">> >>, << <<"f","s","2">>, <<"m","s">> >>, << <<"f","3">> >> } },
                                MaxRows),
                a \in 1..MaxRows, b \in 1..MaxRows } :
        c[2] # {} /\ \A i \in c[2] : i < Len(c[1]) }

MergedCommands ==
    { [ name |-> MMLSFS, pre |-> << >>, header |-> expectedheader(MMLSFS) \o h,
        rows |-> c[1], merged |-> c[2], header_colon |-> col, row_colon |-> col ] :
        h \in Headers, col \in BOOLEAN, c \in MergeChoices }

\* The lines of mmhealth node show -Y: a header line per type, State and Event
\* lines.
StateHeader == << MMHEALTH, <<"S","t","a","t","e">>, <<"H","E","A","D","E","R">>, <<"v","e","r","s","i","o","n">>, <<"r","e","s","e","r","v","e","d">>, <<"r","e","s","e","r","v","e","d">>,
                  <<"n","o","d","e">>, <<"c","o","m","p","o","n","e","n","t">>, <<"e","n","t","i","t","y","n","a","m","e">>, <<"e","n","t","i","t","y","t","y","p","e">>, <<"s","t","a","t","u","s">> >>
EventHeader == << MMHEALTH, <<"E","v","e","n","t">>, <<"H","E","A","D","E","R">>, <<"v","e","r","s","i","o","n">>, <<"r","e","s","e","r","v","e","d">>, <<"r","e","s","e","r","v","e","d">>,
                  <<"n","o","d","e">>, <<"c","o","m","p","o","n","e","n","t">>, <<"e","n","t","i","t","y","n","a","m","e">>, <<"e","n","t","i","t","y","t","y","p","e">>, <<"e","v","e","n","t">>, <<"a","r","g","u","m","e","n","t","s">> >>

HealthRow(typ, values) == << MMHEALTH, typ, << "0" >>, << "1" >>, << >>, << >> >> \o values

HealthRows ==
    { HealthRow(<<"S","t","a","t","e">>, << <<"n","1">>, <<"N","O","D","E">>, <<"n","1">>, <<"N","O","D","E">>, <<"F","A","I","L","E","D">> >>),
      HealthRow(<<"S","t","a","t","e">>, << <<"n","1">>, <<"G","P","F","S">>, <<"n","1">>, <<"N","O","D","E">>, <<"H","E","A","L","T","H","Y">> >>),
      HealthRow(<<"E","v","e","n","t">>, << <<"n","1">>, <<"G","P","F","S">>, <<"n","1">>, <<"N","O","D","E">>, <<"g","p","f","s","_","d","o","w","n">>, << >> >>) }

HealthCommands ==
    { [ name |-> MMHEALTH, pre |-> << >>, header |-> << >>,
        rows |-> (IF sh THEN << StateHeader >> ELSE << >>)
                   \o (IF eh THEN << EventHeader >> ELSE << >>) \o rs,
        merged |-> {}, header_colon |-> TRUE, row_colon |-> TRUE ] :
        sh \in BOOLEAN, eh \in BOOLEAN, rs \in SeqsUpTo(HealthRows, MaxRows) }

ParseCommands == PlainCommands \cup MergedCommands \cup HealthCommands

InitParse ==
    /\ command \in ParseCommands
    /\ stdout = OutputOf(command)
    /\ result = Pending
    /\ health = NoHealth
    /\ ListIdle
    /\ OpsIdle
    /\ entity = NewQuotaEntity
    /\ anyExpiredUpdate = FALSE
    /\ updatedFilesets = {}
    /\ removedAny = FALSE
    /\ lastOp = NoOp
    /\ GraceIdle
    /\ RunIdle

\* _executeY of a command other than mmhealth (list_filesystems, list_quota, ...)
ExecuteY ==
    /\ result.status = "pending"
    /\ command.name # MMHEALTH
    /\ result' = [ status |-> "done", r |-> executeY(command.name, stdout) ]
    /\ UNCHANGED <<command, stdout, health, listVars>>
    /\ UNCHANGED <<entityVars, graceVars, runVars, opsVars>>

\* get_mmhealth_state(), which runs _executeY('mmhealth', ...)
GetMmhealthState ==
    /\ health.status = "pending"
    /\ command.name = MMHEALTH
    /\ result' = [ status |-> "done", r |-> executeY(MMHEALTH, stdout) ]
    /\ health' = [ status |-> "done" ] @@ get_mmhealth_state(stdout)
    /\ UNCHANGED <<command, stdout, listVars>>
    /\ UNCHANGED <<entityVars, graceVars, runVars, opsVars>>

NextParse == ExecuteY \/ GetMmhealthState

SpecParse == InitParse /\ [][NextParse]_vars

\* the lines of the output, as printed
PrintedLines == split(strip(stdout), "\n")

EndsInColon(line) == Len(line) > 0 /\ line[Len(line)] = ":"

\* the lines of the output were split (no line of it is empty)
WasSplit == result.status = "done" /\ Len(result.r.what) = Len(PrintedLines)

\* the number of fields split_output_lines is to make of a line, given whether
\* one colon at its end is removed
FieldsOf(line, remove) ==
    Len(split(strip(line), ":")) - (IF remove /\ EndsInColon(line) THEN 1 ELSE 0)

\* C12: a colon at the end of a line is removed exactly when the first line of
\* the output does not end in a colon; when it does, every line is split as it
\* is (a line ending in a colon keeps its empty last field, a line without one
\* has a field less, and is neither cut nor padded).
C12_ColonRemovedByFirstLine ==
    WasSplit =>
        \A k \in 1..Len(PrintedLines) :
            Len(result.r.what[k]) = FieldsOf(PrintedLines[k], ~EndsInColon(PrintedLines[1]))

\* C12, what the code does: the colon at the end of a line is removed exactly
\* when the first character of the output is not a colon.
C12_ColonRemovedByFirstCharacter ==
    WasSplit =>
        \A k \in 1..Len(PrintedLines) :
            Len(result.r.what[k]) = FieldsOf(PrintedLines[k], stdout[1] # ":")

\* _executeY returned the columns of a canonical header
Assembled == result.status = "done" /\ ~result.r.raised /\ ~result.r.grouped

IsHeaderRow(row) == Len(row) >= 6 /\ SubSeq(row, 1, 6) = expectedheader(command.name)

\* the places of the lines the command printed as data lines
DataRowPlaces == { i \in 1..Len(command.rows) : ~IsHeaderRow(command.rows[i]) }

\* the column names of the header line, without the empty ones
ColumnNames == { command.header[j] : j \in 7..Len(command.header) } \ { << >> }

DistinctColumnNames ==
    \A i \in 7..Len(command.header) : \A j \in 7..Len(command.header) :
        (i # j /\ command.header[i] # << >>) => command.header[i] # command.header[j]

\* C13: the lines before the header line are discarded, the first line that
\* starts as the header does is the description row, and each column has one
\* entry per data line, none for a preamble line or a repeated header line.
C13_PreambleAndRepeatedHeader ==
    (Assembled /\ command.merged = {} /\ DistinctColumnNames) =>
        /\ IsHeaderRow(result.r.lines[1])
        /\ \A name \in DOMAIN result.r.res :
              Len(result.r.res[name]) = Cardinality(DataRowPlaces)

\* C13, the part that holds: the lines before the first header line are
\* discarded, every line after it stays, a repeated header line as well.
C13_LeadingLinesDiscarded ==
    (Assembled /\ command.merged = {}) =>
        /\ IsHeaderRow(result.r.lines[1])
        /\ Len(result.r.lines) = 1 + Len(command.rows)
        /\ \A name \in DOMAIN result.r.res :
              Len(result.r.res[name]) >= Len(command.rows)

\* MonoidDict.__getitem__: the list of a column, empty for a name not entered
Column(res, name) == IF name \in DOMAIN res THEN res[name] ELSE << >>

\* the output is a header line followed by data lines of its field count
HeaderAndEqualRows ==
    /\ Assembled
    /\ command.pre = << >> /\ command.merged = {}
    /\ DataRowPlaces = 1..Len(command.rows)
    /\ Len(result.r.what) = 1 + Len(command.rows)
    /\ \A k \in 1..Len(result.r.what) : Len(result.r.what[k]) = Len(result.r.what[1])

\* the fields at place j of the data lines, in the order of the lines
FieldsAt(j) == [ k \in 1..Len(command.rows) |-> result.r.what[k + 1][j] ]

\* C14: for a header line followed by n data lines of the same field count,
\* each column name that is not empty maps to the fields of the data lines at
\* its place, in the order of the lines, and the empty name is no column.
C14_ColumnsOfEqualRows ==
    HeaderAndEqualRows =>
        /\ \A j \in 7..Len(result.r.what[1]) :
              result.r.what[1][j] # << >> =>
                  Column(result.r.res, result.r.what[1][j]) = FieldsAt(j)
        /\ << >> \notin DOMAIN result.r.res

\* C14 for column names that differ from each other: this holds.
C14_ColumnsOfDistinctNames ==
    (HeaderAndEqualRows /\ DistinctColumnNames) =>
        /\ \A j \in 7..Len(result.r.what[1]) :
              result.r.what[1][j] # << >> =>
                  Column(result.r.res, result.r.what[1][j]) = FieldsAt(j)
        /\ << >> \notin DOMAIN result.r.res

\* the example of C14 was parsed: name,val with (fs1,10), (fs2,ms)
C14_Example ==
    /\ HeaderAndEqualRows
    /\ Len(command.rows) = 2
    /\ Column(result.r.res, <<"n","a","m","e">>) = << <<"f","s","1">>, <<"f","s","2">> >>
    /\ Column(result.r.res, <<"v","a","l">>) = << <<"1","0">>, <<"m","s">> >>

\* C15: when the output was split and assembled, all column lists have the
\* same length, the number of data rows after repair and padding.
C15_ColumnsOfEqualLength ==
    Assembled =>
        \A name \in DOMAIN result.r.res :
            Len(result.r.res[name]) = Len(result.r.lines) - 1

\* C15 for column names that differ from each other: this holds.
C15_EqualLengthOfDistinctNames ==
    (Assembled /\ DistinctColumnNames) =>
        \A name \in DOMAIN result.r.res :
            Len(result.r.res[name]) = Len(result.r.lines) - 1

\* C16: a line that is k >= 2 lines printed without a newline between them is
\* replaced, at its place, by k rows of the field count of the description
\* row each, so that no longer row is left.
C16_MergedRowsSplit ==
    (Assembled /\ command.merged # {}) =>
        /\ Len(result.r.lines) = 1 + Len(command.rows)
        /\ \A k \in 2..Len(result.r.lines) :
              Len(result.r.lines[k]) = Len(result.r.lines[1])

\* C16 for k = 2: the line is replaced by two rows, the first of them of the
\* field count of the description row; this holds.
C16_TwoMergedRowsSplit ==
    (Assembled /\ Cardinality(command.merged) = 1) =>
        /\ Len(result.r.lines) = 1 + Len(command.rows)
        /\ \A i \in command.merged :
              Len(result.r.lines[i + 1]) = Len(result.r.lines[1])

\* the values of a line: its fields after the six fields every line starts with
ValuesOf(line) == SubSeq(line, 7, Len(line))

IsPrefix(xs, ys) == Len(xs) <= Len(ys) /\ SubSeq(ys, 1, Len(xs)) = xs

\* C17: when an output with lines printed without a newline between them is
\* assembled without an error, every line the command printed is a row of the
\* result with exactly its values (followed by padding only): no character of
\* a value is dropped or altered.
C17_ValuesKept ==
    (Assembled /\ command.merged # {}) =>
        \A i \in 1..Len(command.rows) :
            /\ i + 1 <= Len(result.r.lines)
            /\ IsPrefix(ValuesOf(command.rows[i]), ValuesOf(result.r.lines[i + 1]))

\* the last value of line i ends in a character of the tool name
EndsInToolCharacter(i) ==
    LET row == command.rows[i]
        v   == row[Len(row)]
    IN  Len(v) > 0 /\ \E j \in 1..Len(command.name) : v[Len(v)] = command.name[j]

\* C17 for two lines of which the first does not end in a character of the
\* name of the tool: this holds.
C17_ValuesKeptOfTwoLines ==
    (/\ Assembled
     /\ Cardinality(command.merged) = 1
     /\ \A i \in command.merged : ~EndsInToolCharacter(i)) =>
        \A i \in 1..Len(command.rows) :
            /\ i + 1 <= Len(result.r.lines)
            /\ IsPrefix(ValuesOf(command.rows[i]), ValuesOf(result.r.lines[i + 1]))

\* the lines _assemble_fields is given: the header line and the lines after it
Retained == dropwhile_not_header(command.name, result.r.what)

EqualFieldCounts == \A k \in 1..Len(Retained) : Len(Retained[k]) = Len(Retained[1])

\* the result of the same lines, each printed on a line of its own
OnSeparateLines == executeY(command.name, OutputOf([ command EXCEPT !.merged = {} ]))

\* C18, first half: lines that all have the field count of the description
\* row are assembled as they are.
C18_EqualRowsUnchanged ==
    (Assembled /\ EqualFieldCounts) => result.r.lines = Retained

\* C18, second half: the table of an output with lines printed without a
\* newline between them is the table of the same lines printed one per line.
C18_MergedAsSeparate ==
    (result.status = "done" /\ command.merged # {} /\ ~OnSeparateLines.raised) =>
        /\ ~result.r.raised
        /\ result.r.res = OnSeparateLines.res

\* C18: the repair changes nothing of rows of equal field counts, and merged
\* lines give the table of the same lines printed one per line.
C18_RepairIdempotent == C18_EqualRowsUnchanged /\ C18_MergedAsSeparate

\* C18, second half, for two lines of the field count of the description row
\* that do not end in a colon and of which the first does not end in a
\* character of the name of the tool: this holds.
C18_TwoMergedAsSeparate ==
    (/\ result.status = "done"
     /\ Cardinality(command.merged) = 1
     /\ ~command.row_colon
     /\ \A i \in command.merged :
           /\ ~EndsInToolCharacter(i)
           /\ Len(command.rows[i]) = Len(command.header)
           /\ Len(command.rows[i + 1]) = Len(command.header)
     /\ ~OnSeparateLines.raised) =>
        /\ ~result.r.raised
        /\ result.r.res = OnSeparateLines.res

\* the lines mmhealth printed whose second field is typ, and those of them
\* that are not the header line
LinesOfType(typ) == SelectSeq(command.rows, LAMBDA row : row[2] = typ)
DataOfType(typ)  == SelectSeq(command.rows, LAMBDA row : row[2] = typ /\ row[3] # <<"H","E","A","D","E","R">>)

\* the header line of typ is the first line of typ
HeaderFirst(typ, header) == Len(LinesOfType(typ)) > 0 /\ LinesOfType(typ)[1] = header

HealthDone == command.name = MMHEALTH /\ health.status = "done"

\* the columns of the lines of typ under the names of header (a MonoidDict
\* gives the empty list for a name it has not)
GroupedColumns(typ, header) ==
    \A j \in 7..Len(header) :
        (IF header[j] \in DOMAIN result.r.rest[typ]
         THEN result.r.rest[typ][header[j]] ELSE << >>)
          = [ k \in 1..Len(DataOfType(typ)) |-> DataOfType(typ)[k][j] ]

\* '%s_%s' % (component, entityname) of a State line
Ident(row) == row[8] \o << "_" >> \o row[9]

C20_WitnessNoRows ==
    /\ HealthDone
    /\ Len(command.rows) > 0
    /\ Len(LinesOfType(<<"S","t","a","t","e">>)) = 0
    /\ result.r.error = "GpfsOperationError"

\* the k-th line given to _assemble_fields has fewer fields than the
\* description row, and no line before it has more (so that it is the k-th
\* line after the repair too)
ShortAt(k) ==
    /\ Len(Retained[k]) < Len(Retained[1])
    /\ \A j \in 2..(k - 1) : Len(Retained[j]) <= Len(Retained[1])

\* C27: a line with fewer fields than the description row is extended with
\* empty fields to the field count of the description row, whatever the
\* field counts of the other lines are.
C27_PaddedToDescription ==
    Assembled =>
        \A k \in 2..Len(Retained) :
            ShortAt(k) =>
                /\ Len(result.r.lines[k]) = Len(Retained[1])
                /\ IsPrefix(Retained[k], result.r.lines[k])

\* C27 for outputs none of whose lines has more fields than the description
\* row: this holds.
C27_PaddedWithoutLongerLines ==
    (Assembled /\ \A j \in 2..Len(Retained) : Len(Retained[j]) <= Len(Retained[1])) =>
        \A k \in 2..Len(Retained) :
            /\ Len(result.r.lines[k]) = Len(Retained[1])
            /\ IsPrefix(Retained[k], result.r.lines[k])

\* ------------------------------------------------------- SpecList
MaxDevices == 2
MaxChanges == 1     \* changes of the information of a filesystem

MMREPQUOTA  == <<"m","m","r","e","p","q","u","o","t","a">>
MMLSFILESET == <<"m","m","l","s","f","i","l","e","s","e","t">>

\* Mutant: the assignment of a dict, which replaces the value of the key.
MonoidDict_setitem_replacing(info_, key, value) == (key :> value) @@ info_

\* info[key] = value of a MonoidDict of lists, whose mappend is xs + ys
MonoidDict_setitem(info_, key, value) ==
    IF key \in DOMAIN info_ THEN [ info_ EXCEPT ![key] = @ \o value ]
    ELSE (key :> value) @@ info_

\* for (key, value) in res.items(): info[key] = value (the keys of res differ
\* from each other, so the order of the items does not matter)
MergeItems(info_, res) ==
    [ key \in DOMAIN info_ \cup DOMAIN res |->
        IF key \in DOMAIN res THEN MonoidDict_setitem(info_, key, res[key])[key]
        ELSE info_[key] ]

\* what the command prints for a device: one or two columns, up to two lines
\* of one or two values
DeviceHeaders == { << <<"f","i","l","e","s","y","s","t","e","m","N","a","m","e">>, <<"i","d">> >>, << <<"f","i","l","e","s","y","s","t","e","m","N","a","m","e">> >> }
DeviceRows    == { << <<"f","s","1">>, <<"1">> >>, << <<"f","s","2">>, <<"2">> >>, << <<"f","s","3">> >> }

DeviceCommands(name) ==
    { [ name |-> name, pre |-> << >>, header |-> expectedheader(name) \o h, rows |-> rs,
        merged |-> {}, header_colon |-> FALSE, row_colon |-> FALSE ] :
        h \in DeviceHeaders,
        rs \in SeqsUpTo({ DataRow(name, v) : v \in DeviceRows }, 2) }

InitList ==
    /\ listing \in { "list_quota", "list_filesets" }
    /\ devices = << >>
    /\ info = << >>
    /\ command = NoCommand
    /\ stdout = << >>
    /\ result = Pending
    /\ health = NoHealth
    /\ OpsIdle
    /\ entity = NewQuotaEntity
    /\ anyExpiredUpdate = FALSE
    /\ updatedFilesets = {}
    /\ removedAny = FALSE
    /\ lastOp = NoOp
    /\ GraceIdle
    /\ RunIdle

\* Mutant: an exception of _executeY is caught in the loop, which goes on with
\* the next device.
ListDevice_skipping(cmd, r) ==
    /\ Len(devices) < MaxDevices
    /\ command' = cmd
    /\ stdout' = OutputOf(cmd)
    /\ result' = [ status |-> "done", r |-> r ]
    /\ IF r.raised
       THEN UNCHANGED <<listing, devices, info>>
       ELSE /\ devices' = Append(devices, [ command |-> cmd, res |-> r.res ])
            /\ info' = MergeItems(info, r.res)
            /\ UNCHANGED listing
    /\ UNCHANGED health
    /\ UNCHANGED <<entityVars, graceVars, runVars, opsVars>>

\* one round of the loop over the devices: the command is run for the device
\* and its columns are put into info; an exception of _executeY leaves the
\* loop and the function
ListDevice(cmd, r) ==
    /\ Len(devices) < MaxDevices
    /\ command' = cmd
    /\ stdout' = OutputOf(cmd)
    /\ result' = [ status |-> "done", r |-> r ]
    /\ IF r.raised
       THEN /\ listing' = "raised"
            /\ UNCHANGED <<devices, info>>
       ELSE /\ devices' = Append(devices, [ command |-> cmd, res |-> r.res ])
            /\ info' = MergeItems(info, r.res)
            /\ UNCHANGED listing
    /\ UNCHANGED health
    /\ UNCHANGED <<entityVars, graceVars, runVars, opsVars>>

\* list_quota: res = self._executeY('mmrepquota', ['-n', device], prefix=True)
ListQuotaDevice ==
    /\ listing = "list_quota"
    /\ \E cmd \in DeviceCommands(MMREPQUOTA) :
          ListDevice(cmd, executeY(MMREPQUOTA, OutputOf(cmd)))

\* list_filesets: res = self._executeY('mmlsfileset', opts_)
ListFilesetsDevice ==
    /\ listing = "list_filesets"
    /\ \E cmd \in DeviceCommands(MMLSFILESET) :
          ListDevice(cmd, executeY(MMLSFILESET, OutputOf(cmd)))

NextList == ListQuotaDevice \/ ListFilesetsDevice

SpecList == InitList /\ [][NextList]_vars

\* the column of a name in the result of the k-th device, empty when the
\* device has no such column
ColumnOfDevice(k, name) ==
    IF name \in DOMAIN devices[k].res THEN devices[k].res[name] ELSE << >>

RECURSIVE ColumnsFrom(_, _)
ColumnsFrom(k, name) ==
    IF k > Len(devices) THEN << >>
    ELSE ColumnOfDevice(k, name) \o ColumnsFrom(k + 1, name)

\* C19: the column of each name in info is the columns of that name of the
\* devices visited, one after the other in the order of the devices; the
\* names of info are the names of the devices' results.
C19_ColumnsConcatenated ==
    /\ DOMAIN info = UNION { DOMAIN devices[k].res : k \in 1..Len(devices) }
    /\ \A name \in DOMAIN info : info[name] = ColumnsFrom(1, name)

\* C19: the columns of a later device are added after those of an earlier
\* one, which stay as they were.
C19_LaterDeviceAppends ==
    [][ \A name \in DOMAIN info :
          /\ name \in DOMAIN info'
          /\ IsPrefix(info[name], info'[name]) ]_vars

\* two devices were visited, both with rows in a column of the same name
C19_Witness ==
    /\ listing \in { "list_quota", "list_filesets" }
    /\ Len(devices) = 2
    /\ \E name \in DOMAIN devices[1].res \cap DOMAIN devices[2].res :
          /\ Len(devices[1].res[name]) > 0
          /\ Len(devices[2].res[name]) > 0
          /\ devices[1].res[name] # devices[2].res[name]
          /\ info[name] = devices[1].res[name] \o devices[2].res[name]

\* the command of a device raised while its output was parsed
DeviceRaised == result.status = "done" /\ result.r.raised

MMLSSNAPSHOT == <<"m","m","l","s","s","n","a","p","s","h","o","t">>

SnapNames == { <<"s","1">>, <<"s","2">>, <<"s","3">> }

\* what mmlssnapshot <filesystem> -Y prints for the snapshots snaps
SnapshotOutput(snaps) ==
    IF Len(snaps) = 0 THEN <<"N","o"," ","s","n","a","p","s","h","o","t","s"," ","i","n"," ","f","i","l","e"," ","s","y","s","t","e","m"," ","f","s","t","e","s","t">>
    ELSE OutputOf([ name |-> MMLSSNAPSHOT, pre |-> << >>,
                    header |-> expectedheader(MMLSSNAPSHOT)
                                 \o << <<"f","i","l","e","s","y","s","t","e","m","N","a","m","e">>, <<"d","i","r","e","c","t","o","r","y">>, <<"s","n","a","p","I","D">> >>,
                    rows |-> [ k \in 1..Len(snaps) |->
                                 DataRow(MMLSSNAPSHOT, << <<"f","s","t","e","s","t">>, snaps[k], <<"1">> >>) ],
                    merged |-> {}, header_colon |-> TRUE, row_colon |-> TRUE ])

\* what the command prints when it fails (test_list_snapshots)
MockedOutput == <<"m","o","c","k","e","d","!">>

\* list_snapshots from snaps = self._executeY('mmlssnapshot', [filesystem]) on:
\* snaps['directory'], the empty list when GpfsOperationError carries
\* 'No snapshots in file system' (its message holds the output), or the
\* exception
list_snapshots_of(out, snaps) ==
    IF ~snaps.raised
    THEN [ raised |-> FALSE, directory |-> Get(snaps.res, <<"d","i","r","e","c","t","o","r","y">>) ]
    ELSE IF snaps.error = "GpfsOperationError"
            /\ find_sublist_index(out, <<"N","o"," ","s","n","a","p","s","h","o","t","s"," ","i","n"," ","f","i","l","e"," ","s","y","s","t","e","m">>) # None
    THEN [ raised |-> FALSE, directory |-> << >> ]
    ELSE [ raised |-> TRUE, directory |-> << >> ]

\* list_snapshots(filesystem), given what mmlssnapshot prints
list_snapshots(out) == list_snapshots_of(out, executeY(MMLSSNAPSHOT, out))

In(x, lst) == \E k \in 1..Len(lst) : lst[k] = x

Remove(x, lst) == SelectSeq(lst, LAMBDA y : y # x)

\* PosixOperations._execute(cmd, changes=True): in a dry run the command is not
\* run and (0, "") is returned
execute_changes(dry_run_, ec) == IF dry_run_ THEN 0 ELSE ec

\* Mutant: the snapshot is created whether or not its name is listed.
snapshot_call_unchecked(op, listed, snapname, dry_run_, ec) ==
    IF listed.raised THEN [ ran |-> << >>, returned |-> "raised" ]
    ELSE LET cmd == IF op = "create" THEN "mmcrsnapshot" ELSE "mmdelsnapshot"
         IN  [ ran      |-> << [ cmd |-> cmd, snapname |-> snapname ] >>,
               returned |-> IF execute_changes(dry_run_, ec) > 0 THEN "raised"
                            ELSE IF execute_changes(dry_run_, ec) = 0 THEN "True"
                            ELSE "False" ]

\* create_filesystem_snapshot and delete_filesystem_snapshot from
\* snapshots = self.list_snapshots(fsname) on: the calls of _execute made and
\* what is returned (0, ec == 0, or the exception)
snapshot_call(op, listed, snapname, dry_run_, ec) ==
    IF listed.raised THEN [ ran |-> << >>, returned |-> "raised" ]
    ELSE IF (op = "create") = In(snapname, listed.directory)
    THEN [ ran |-> << >>, returned |-> "0" ]
    ELSE LET cmd == IF op = "create" THEN "mmcrsnapshot" ELSE "mmdelsnapshot"
         IN  [ ran      |-> << [ cmd |-> cmd, snapname |-> snapname ] >>,
               returned |-> IF execute_changes(dry_run_, ec) > 0 THEN "raised"
                            ELSE IF execute_changes(dry_run_, ec) = 0 THEN "True"
                            ELSE "False" ]

\* the snapshots of the filesystem after the commands ran: a command that
\* ends with exit code 0 did what it is for, any other changed nothing
SnapshotsAfter(snaps, call, dry_run_, ec) ==
    IF Len(call.ran) = 0 \/ dry_run_ \/ ec # 0 THEN snaps
    ELSE IF call.ran[1].cmd = "mmcrsnapshot" THEN Append(snaps, call.ran[1].snapname)
    ELSE Remove(call.ran[1].snapname, snaps)

\* nothing of the quota run, the parsers and the listings has happened
BaseIdle ==
    /\ entity = NewQuotaEntity
    /\ anyExpiredUpdate = FALSE
    /\ updatedFilesets = {}
    /\ removedAny = FALSE
    /\ lastOp = NoOp
    /\ GraceIdle
    /\ RunIdle
    /\ command = NoCommand
    /\ stdout = << >>
    /\ result = Pending
    /\ health = NoHealth
    /\ ListIdle

InitSnap ==
    /\ snapshots \in { << >>, << <<"s","1">> >> }
    /\ snapCall = NoSnapCall
    /\ BaseIdle
    /\ MainIdle
    /\ GpfsIdle
    /\ FlagIdle
    /\ StatIdle
    /\ SymIdle
    /\ QuotaIdle
    /\ LfsIdle

SnapshotCall(op, snapname, out, dry_run_, ec, call) ==
    /\ snapCall' = [ op |-> op, snapname |-> snapname, before |-> snapshots,
                     listed |-> out, dry_run |-> dry_run_, ec |-> ec,
                     ran |-> call.ran, returned |-> call.returned ]
    /\ snapshots' = SnapshotsAfter(snapshots, call, dry_run_, ec)
    /\ UNCHANGED notSnap

\* create_filesystem_snapshot(fsname, snapname)
CreateFilesystemSnapshot ==
    \E snapname \in SnapNames, dry_run_ \in BOOLEAN, ec \in 0..2,
       out \in { SnapshotOutput(snapshots), MockedOutput } :
        SnapshotCall("create", snapname, out, dry_run_, ec,
                     snapshot_call("create", list_snapshots(out), snapname, dry_run_, ec))

\* delete_filesystem_snapshot(fsname, snapname)
DeleteFilesystemSnapshot ==
    \E snapname \in SnapNames, dry_run_ \in BOOLEAN, ec \in 0..2,
       out \in { SnapshotOutput(snapshots), MockedOutput } :
        SnapshotCall("delete", snapname, out, dry_run_, ec,
                     snapshot_call("delete", list_snapshots(out), snapname, dry_run_, ec))

NextSnap == CreateFilesystemSnapshot \/ DeleteFilesystemSnapshot

SpecSnap == InitSnap /\ [][NextSnap]_vars

\* mmlssnapshot printed the snapshots of the filesystem
SnapshotsListed == snapCall.op # "none" /\ snapCall.listed # MockedOutput

\* the one call of _execute with the command cmd for the snapshot of the call
RanOnce(cmd) == snapCall.ran = << [ cmd |-> cmd, snapname |-> snapCall.snapname ] >>

\* C22: mmcrsnapshot is not run for a name that list_snapshots has (the call
\* returns 0), mmdelsnapshot is not run for a name it has not (0 too);
\* otherwise the command is handed to _execute exactly once, and the call
\* returns True on exit code 0 and raises on an exit code above 0.
C22_SnapshotCommands ==
    SnapshotsListed =>
        LET has == In(snapCall.snapname, snapCall.before)
            ec  == IF snapCall.dry_run THEN 0 ELSE snapCall.ec
        IN  /\ (snapCall.op = "create" /\ has) =>
                   (snapCall.ran = << >> /\ snapCall.returned = "0")
            /\ (snapCall.op = "delete" /\ ~has) =>
                   (snapCall.ran = << >> /\ snapCall.returned = "0")
            /\ (snapCall.op = "create" /\ ~has) =>
                   /\ RanOnce("mmcrsnapshot")
                   /\ snapCall.returned = (IF ec = 0 THEN "True" ELSE "raised")
            /\ (snapCall.op = "delete" /\ has) =>
                   /\ RanOnce("mmdelsnapshot")
                   /\ snapCall.returned = (IF ec = 0 THEN "True" ELSE "raised")

\* a snapshot was made, and making it again ran nothing and returned 0
C22_Witness ==
    /\ SnapshotsListed
    /\ snapCall.op = "create"
    /\ Len(snapCall.before) = 2
    /\ In(snapCall.snapname, snapCall.before)
    /\ snapCall.returned = "0"

\* a snapshot was deleted: mmdelsnapshot ran once and ended with 0
C22_WitnessDeleted ==
    /\ SnapshotsListed
    /\ snapCall.op = "delete"
    /\ RanOnce("mmdelsnapshot")
    /\ snapCall.returned = "True"
    /\ ~In(snapCall.snapname, snapshots)

\* ------------------------------------------------------- SpecQuota
\* int(n / 1024 ** 2) of a number of bytes that is not negative
MB(n) == n \div 1048576

\* int(n * soft2hard_factor), soft2hard_factor = 1.05 (for the numbers used
\* here the floating point product gives the same integer)
soft2hard(n) == (n * 105) \div 100

\* the limits in bytes and inodes of the calls
Softs      == { 0, 1024, 1048576, 10240000 }
Hards      == { 1024, 1048576, 10240000, 20971520 }
InodeSofts == { 0, 1000, 2000 }
InodeHards == { 999, 1050, 2123 }

QuotaRaised == [ raised |-> TRUE, opts |-> None ]

\* if hard is None: hard = int(soft * soft2hard_factor); elif hard < soft: raise
\* Mutant: a hard limit below the soft limit is passed on.
hard_limit_unchecked(soft, hard) ==
    IF hard = None THEN [ raised |-> FALSE, hard |-> soft2hard(soft) ]
    ELSE [ raised |-> FALSE, hard |-> hard[1] ]

hard_limit(soft, hard) ==
    IF hard = None THEN [ raised |-> FALSE, hard |-> soft2hard(soft) ]
    ELSE IF hard[1] < soft THEN [ raised |-> TRUE, hard |-> 0 ]
    ELSE [ raised |-> FALSE, hard |-> hard[1] ]

\* the limits not given to the command
NoLimit == [ raised |-> FALSE, given |-> FALSE, soft |-> 0, hard |-> 0 ]

Limit(soft, h) == [ raised |-> h.raised, given |-> TRUE, soft |-> soft, hard |-> h.hard ]

\* the options of the command and the call of _execute with changes=True
\* (a dry run gives exit code 0); fails is what makes the function raise
issue_quota(a, block, inode, fails) ==
    IF block.raised \/ inode.raised THEN QuotaRaised
    ELSE [ raised |-> fails,
           opts   |-> Some([ soft       |-> IF block.given THEN Some(block.soft) ELSE None,
                             hard       |-> IF block.given THEN Some(block.hard) ELSE None,
                             inode_soft |-> IF inode.given THEN Some(inode.soft) ELSE None,
                             inode_hard |-> IF inode.given THEN Some(inode.hard) ELSE None ]) ]

\* GpfsOperations._set_quota: -s and -h in MB, -S and -H when inode_soft is
\* given; soft = None is a TypeError
gpfs_block(soft, h) == Limit(MB(soft), [ raised |-> h.raised, hard |-> MB(h.hard) ])

gpfs_set_quota(a) ==
    IF ~a.dry_run /\ ~a.exists THEN QuotaRaised
    ELSE IF a.typ \notin { "user", "group", "fileset" } THEN QuotaRaised
    ELSE IF a.soft = None THEN QuotaRaised
    ELSE issue_quota(a,
                     gpfs_block(a.soft[1], hard_limit(a.soft[1], a.hard)),
                     IF a.inode_soft = None THEN NoLimit
                     ELSE Limit(a.inode_soft[1], hard_limit(a.inode_soft[1], a.inode_hard)),
                     execute_changes(a.dry_run, a.ec) > 0)

\* LustreOperations._set_quota: -b and -B in MB when soft is given and not 0
\* (0 MB raises), -i and -I when inode_soft is given and not 0
lustre_block(soft, h) ==
    Limit(MB(soft), [ raised |-> h.raised \/ MB(soft) = 0 \/ MB(h.hard) = 0,
                      hard   |-> MB(h.hard) ])

lustre_set_quota(a) ==
    IF ~a.dry_run /\ ~a.exists THEN QuotaRaised
    ELSE IF a.soft = None /\ a.inode_soft = None THEN QuotaRaised
    ELSE issue_quota(a,
                     IF a.soft = None \/ a.soft = Some(0) THEN NoLimit
                     ELSE lustre_block(a.soft[1], hard_limit(a.soft[1], a.hard)),
                     IF a.inode_soft = None \/ a.inode_soft = Some(0) THEN NoLimit
                     ELSE Limit(a.inode_soft[1], hard_limit(a.inode_soft[1], a.inode_hard)),
                     execute_changes(a.dry_run, a.ec) # 0)

Optional(S) == { None } \cup { Some(n) : n \in S }

QuotaCalls ==
    [ backend : { "gpfs", "lustre" }, typ : { "user", "other" }, exists : BOOLEAN,
      dry_run : BOOLEAN, ec : { 0, 1 },
      soft : Optional(Softs), hard : Optional(Hards),
      inode_soft : Optional(InodeSofts), inode_hard : Optional(InodeHards) ]

InitQuota ==
    /\ quotaArgs \in QuotaCalls
    /\ quotaCall = NoQuotaCall
    /\ BaseIdle
    /\ MainIdle
    /\ GpfsIdle
    /\ FlagIdle
    /\ StatIdle
    /\ SymIdle
    /\ SnapIdle
    /\ LfsIdle

\* GpfsOperations._set_quota
GpfsSetQuota ==
    /\ quotaCall.status = "pending"
    /\ quotaArgs.backend = "gpfs"
    /\ quotaCall' = [ status |-> "done" ] @@ gpfs_set_quota(quotaArgs)
    /\ UNCHANGED <<quotaArgs, notQuota>>

\* LustreOperations._set_quota (the type is a member of Typ2Opt)
LustreSetQuota ==
    /\ quotaCall.status = "pending"
    /\ quotaArgs.backend = "lustre"
    /\ quotaCall' = [ status |-> "done" ] @@ lustre_set_quota(quotaArgs)
    /\ UNCHANGED <<quotaArgs, notQuota>>

NextQuota == GpfsSetQuota \/ LustreSetQuota

SpecQuota == InitQuota /\ [][NextQuota]_vars

\* a command was handed to _execute with these options
QuotaIssued == quotaCall.status = "done" /\ quotaCall.opts # None

IssuedOpts == quotaCall.opts[1]

\* the number the command gets for a limit in bytes
InUnits(n) == MB(n)

\* C23: every command issued has a hard limit that is not below the soft
\* limit, for the blocks and for the inodes: a hard limit that is not given is
\* int(1.05 * soft), one that is given is the one passed on (the block limits
\* in MB), and one that is below the soft limit raises and no command is
\* issued.
C23_HardNotBelowSoft ==
    /\ QuotaIssued =>
          /\ IssuedOpts.soft # None =>
                /\ IssuedOpts.hard # None
                /\ IssuedOpts.hard[1] >= IssuedOpts.soft[1]
                /\ IssuedOpts.soft = Some(InUnits(quotaArgs.soft[1]))
                /\ IssuedOpts.hard =
                      Some(InUnits(IF quotaArgs.hard = None
                                   THEN soft2hard(quotaArgs.soft[1]) ELSE quotaArgs.hard[1]))
          /\ IssuedOpts.inode_soft # None =>
                /\ IssuedOpts.inode_hard # None
                /\ IssuedOpts.inode_hard[1] >= IssuedOpts.inode_soft[1]
                /\ IssuedOpts.inode_soft = quotaArgs.inode_soft
                /\ IssuedOpts.inode_hard =
                      (IF quotaArgs.inode_hard = None
                       THEN Some(soft2hard(quotaArgs.inode_soft[1])) ELSE quotaArgs.inode_hard)
    /\ (/\ quotaCall.status = "done"
        /\ \/ /\ quotaArgs.soft # None /\ quotaArgs.hard # None
              /\ quotaArgs.hard[1] < quotaArgs.soft[1]
           \/ /\ quotaArgs.inode_soft # None /\ quotaArgs.inode_hard # None
              /\ quotaArgs.inode_hard[1] < quotaArgs.inode_soft[1]) =>
          (quotaCall.raised /\ quotaCall.opts = None)

\* inode_soft = 1000 without a hard limit: the command carries 1050
C23_Witness ==
    /\ QuotaIssued
    /\ quotaArgs.inode_soft = Some(1000) /\ quotaArgs.inode_hard = None
    /\ IssuedOpts.inode_hard = Some(1050)
    /\ quotaArgs.soft = Some(1048576) /\ quotaArgs.hard = Some(20971520)
    /\ IssuedOpts.soft = Some(1) /\ IssuedOpts.hard = Some(20)

\* a hard limit below the soft limit raised and nothing was issued
C23_WitnessBelow ==
    /\ quotaCall.status = "done"
    /\ quotaArgs.exists /\ quotaArgs.typ = "user"
    /\ quotaArgs.inode_soft = Some(2000) /\ quotaArgs.inode_hard = Some(1050)
    /\ quotaCall.raised /\ quotaCall.opts = None

\* ------------------------------------------------------- SpecLfs
\* the directories gent/projects/00[0-9] of LustreVscTier1cScratchFs
Locs == { "000", "001" }

\* names of filesets; pj2 and pj02 have one project id
ProjectNames == { << "p","j","2" >>, << "p","j","0","2" >>, << "p","j","3" >> }

FilesetPaths == [ loc : Locs, name : ProjectNames ]

Letters == { "p", "j" }

\* LustreVscFS.pjid_from_name with projectid_maps = {'pj': 900000}: the
\* letters and the digits of "([a-zA-Z]+)([0-9]+)" (the id is kept as a number)
pjid_from_name(name) ==
    LET e == RunEnd(name, 1, Letters)
    IN  900000 + int(SubSeq(name, e + 1, RunEnd(name, e + 1, Digits)))

\* _list_filesets: project id -> path and name of the directories that have
\* one (the ids of the directories are distinct in every state reached)
_list_filesets(dirs) ==
    [ id \in { d.pjid : d \in dirs } |->
        LET d == CHOOSE x \in dirs : x.pjid = id IN [ loc |-> d.loc, name |-> d.name ] ]

\* self.filesets[fsname] after list_filesets([fsname])
list_filesets(held, dirs) ==
    IF held = None THEN Some(_list_filesets(dirs)) ELSE held

\* get_fileset_info: there is a fileset of this name in the lst
get_fileset_info(lst, name) ==
    \E id \in DOMAIN lst : lst[id].name = name

FilesetCall(outcome, made, dirs, held) ==
    [ outcome |-> outcome, made |-> made, dirs |-> dirs, cache |-> held ]

\* make_fileset after the checks of the path, the listing cached by
\* get_fileset_info. The message of the project id check indexes the lst
\* of all file systems with the project id.
make_fileset_listed(dirs, cached, path, pjid, fail) ==
    IF get_fileset_info(cached[1], path.name)
      THEN FilesetCall("LustreOperationError", FALSE, dirs, cached)
    ELSE IF pjid \in DOMAIN cached[1]
      THEN FilesetCall("KeyError", FALSE, dirs, cached)
    ELSE IF fail # "none"
      THEN FilesetCall("LustreOperationError", TRUE, dirs, cached)
    ELSE FilesetCall("True", TRUE,
                     dirs \cup { [ loc |-> path.loc, name |-> path.name, pjid |-> pjid ] }, None)

\* LustreOperations.make_fileset (not a dry run); fail is the step after
\* make_dir that raises LustreOperationError: "project" for
\* _set_new_project_id, "quota" for _set_quota
make_fileset(dirs, parents, held, path, fileset_name, fail) ==
    IF fileset_name # None /\ fileset_name # Some(path.name)
      THEN FilesetCall("LustreOperationError", FALSE, dirs, held)
    ELSE IF \E d \in dirs : d.loc = path.loc /\ d.name = path.name
      THEN FilesetCall("LustreOperationError", FALSE, dirs, held)
    ELSE IF path.loc \notin parents
      THEN FilesetCall("LustreOperationError", FALSE, dirs, held)
    ELSE make_fileset_listed(dirs, list_filesets(held, dirs), path,
                             pjid_from_name(path.name), fail)

InitLfs ==
    /\ lfsDirs = {}
    /\ lfsParents \in SUBSET Locs
    /\ lfsCache = None
    /\ lfsCall = NoLfsCall
    /\ BaseIdle
    /\ MainIdle
    /\ GpfsIdle
    /\ FlagIdle
    /\ StatIdle
    /\ SymIdle
    /\ SnapIdle
    /\ QuotaIdle

MakeFilesetCall(path, fileset_name, fail, call) ==
    /\ lfsCall' = [ op |-> "make_fileset", path |-> path, fileset_name |-> fileset_name,
                    fail |-> fail, before |-> lfsDirs, outcome |-> call.outcome,
                    made |-> call.made ]
    /\ lfsDirs' = call.dirs
    /\ lfsCache' = call.cache
    /\ UNCHANGED <<lfsParents, notLfs>>

\* LustreOperations.make_fileset
MakeFileset ==
    \E path \in FilesetPaths, fileset_name \in { None, Some(<< "p","j","2" >>) },
       fail \in { "none", "project", "quota" } :
        MakeFilesetCall(path, fileset_name, fail,
                        make_fileset(lfsDirs, lfsParents, lfsCache, path, fileset_name, fail))

\* LustreOperations.list_filesets([fsname])
ListFilesets ==
    /\ lfsCache' = list_filesets(lfsCache, lfsDirs)
    /\ lfsCall' = [ op |-> "list_filesets", returned |-> lfsCache'[1] ]
    /\ UNCHANGED <<lfsDirs, lfsParents, notLfs>>

NextLfs == MakeFileset \/ ListFilesets

SpecLfs == InitLfs /\ [][NextLfs]_vars

MadeFileset == lfsCall.op = "make_fileset"

\* what make_fileset refuses: the name is not the directory's, the path
\* exists, the parent is missing, a fileset has the name or the project id
Refused ==
    \/ lfsCall.fileset_name # None /\ lfsCall.fileset_name # Some(lfsCall.path.name)
    \/ \E d \in lfsCall.before : d.loc = lfsCall.path.loc /\ d.name = lfsCall.path.name
    \/ lfsCall.path.loc \notin lfsParents
    \/ \E d \in lfsCall.before : d.name = lfsCall.path.name
    \/ \E d \in lfsCall.before : d.pjid = pjid_from_name(lfsCall.path.name)

\* C24: make_fileset is all or nothing: a refused call and a call whose
\* project id or quota step fails raise LustreOperationError and leave the
\* directories as they were; any other call returns True, has made the
\* directory with its project id, and has dropped the cached lst.
C24_AllOrNothing ==
    MadeFileset =>
        IF Refused \/ lfsCall.fail # "none"
        THEN /\ lfsCall.outcome = "LustreOperationError"
             /\ lfsDirs = lfsCall.before
        ELSE /\ lfsCall.outcome = "True"
             /\ lfsDirs = lfsCall.before \cup
                    { [ loc |-> lfsCall.path.loc, name |-> lfsCall.path.name,
                        pjid |-> pjid_from_name(lfsCall.path.name) ] }
             /\ lfsCache = None

\* the same, whatever the class of the exception of a refused call
C24_AllOrNothingAnyError ==
    MadeFileset =>
        IF Refused \/ lfsCall.fail # "none"
        THEN /\ lfsCall.outcome # "True"
             /\ lfsDirs = lfsCall.before
        ELSE /\ lfsCall.outcome = "True"
             /\ lfsDirs = lfsCall.before \cup
                    { [ loc |-> lfsCall.path.loc, name |-> lfsCall.path.name,
                        pjid |-> pjid_from_name(lfsCall.path.name) ] }
             /\ lfsCache = None

\* list_filesets returns the filesets of the directories
C24_ListingIsCurrent ==
    lfsCall.op = "list_filesets" => lfsCall.returned = _list_filesets(lfsDirs)

\* the directory was made and removed again
C24_WitnessRemoved ==
    /\ MadeFileset /\ lfsCall.made /\ lfsCall.outcome = "LustreOperationError"
    /\ lfsCall.before # {}

\* ------------------------------------------------------- SpecSym
\* the names of one directory of a supported file system
SymNames == { "t", "o", "r" }

Absent == [ kind |-> "absent" ]
Dir    == [ kind |-> "dir" ]
File   == [ kind |-> "file" ]
Link(name) == [ kind |-> "link", to |-> name ]

SymEntries == { Absent, Dir, File } \cup { Link(n) : n \in SymNames }

\* os.path.islink
islink(fs, p) == fs[p].kind = "link"

\* os.path.realpath: the links followed (at most k of them), a missing name kept
RECURSIVE realpath_upto(_, _, _)
realpath_upto(fs, p, k) ==
    IF k = 0 \/ ~islink(fs, p) THEN p ELSE realpath_upto(fs, fs[p].to, k - 1)

realpath(fs, p) == realpath_upto(fs, p, Cardinality(SymNames))

\* no chain of links comes back to a link
Acyclic(fs) == \A p \in SymNames : ~islink(fs, realpath(fs, p))

\* os.path.exists: the links lead to a file or a directory
path_exists(fs, p) == fs[realpath(fs, p)].kind \in { "dir", "file" }

\* PosixOperations._exists with brokenlinkexists = True
_exists(fs, p) == path_exists(fs, p) \/ islink(fs, p)

\* PosixOperations._sanity_check of an absolute path of the supported file
\* system: TRUE when it raises (obj is not its realpath and the mismatch is
\* not ignored)
_sanity_check_raises(fs, p, ignore) ==
    p # realpath(fs, p) /\ ~ignore

SymResult(outcome, fs) == [ outcome |-> outcome, fs |-> fs ]

\* make_symlink from self.exists(obj) on; target_ is the target after the
\* removal of a target that is a link
make_symlink_obj(fs, target_, obj, a) ==
    IF _sanity_check_raises(fs, obj, a.ignore) THEN SymResult("PosixOperationError", fs)
    ELSE IF _exists(fs, obj) /\ realpath(fs, target_) = realpath(fs, obj)
      THEN SymResult("ok", fs)
    ELSE IF a.dry_run THEN SymResult("ok", fs)
    ELSE IF _exists(fs, obj) /\ fs[obj].kind = "dir"
      THEN SymResult("PosixOperationError", fs)
    ELSE SymResult("ok", [ fs EXCEPT ![obj] = Link(target_) ])

\* PosixOperations.make_symlink(target, obj, force)
make_symlink(fs, a) ==
    IF _sanity_check_raises(fs, a.target, a.ignore) \/ _sanity_check_raises(fs, a.obj, a.ignore)
      THEN SymResult("PosixOperationError", fs)
    ELSE IF path_exists(fs, a.target)
      THEN IF islink(fs, a.target) /\ ~a.dry_run /\ a.force
           THEN make_symlink_obj([ fs EXCEPT ![a.target] = Absent ],
                                 realpath(fs, a.target), a.obj, a)
           ELSE make_symlink_obj(fs, a.target, a.obj, a)
    ELSE IF ~a.dry_run THEN SymResult("PosixOperationError", fs)
    ELSE make_symlink_obj(fs, a.target, a.obj, a)

SymCalls ==
    [ target : { "t", "r" }, obj : { "o" }, force : BOOLEAN, dry_run : BOOLEAN,
      ignore : BOOLEAN ]

InitSym ==
    /\ symFs \in { fs \in [ SymNames -> SymEntries ] : Acyclic(fs) }
    /\ symCall = NoSymCall
    /\ symPrev = NoSymCall
    /\ BaseIdle
    /\ MainIdle
    /\ GpfsIdle
    /\ FlagIdle
    /\ StatIdle
    /\ SnapIdle
    /\ QuotaIdle
    /\ LfsIdle

MakeSymlinkCall(a, r) ==
    /\ symCall' = [ op |-> "make_symlink", args |-> a, before |-> symFs,
                    outcome |-> r.outcome ]
    /\ symPrev' = symCall
    /\ symFs' = r.fs
    /\ UNCHANGED notSym

\* PosixOperations.make_symlink
MakeSymlink == \E a \in SymCalls : MakeSymlinkCall(a, make_symlink(symFs, a))

NextSym == MakeSymlink

SpecSym == InitSym /\ [][NextSym]_vars

MadeSymlink == symCall.op = "make_symlink"

\* obj is a link to the target of the call
PointsTo(fs, a) == fs[a.obj] = Link(a.target)

\* C25: make_symlink is idempotent: a link obj -> target that is there is
\* left in place and nothing changes; a call that has ended without an
\* exception (not a dry run) leaves obj pointing to target; and the same call
\* made again after such a call changes nothing and does not fail.
C25_Idempotent ==
    MadeSymlink =>
        /\ PointsTo(symCall.before, symCall.args) =>
              (symCall.outcome = "ok" /\ symFs = symCall.before)
        /\ (symCall.outcome = "ok" /\ ~symCall.args.dry_run) =>
              PointsTo(symFs, symCall.args)
        /\ (/\ symPrev # NoSymCall
            /\ symPrev.args = symCall.args
            /\ symPrev.outcome = "ok") =>
              (symCall.outcome = "ok" /\ symFs = symCall.before)

\* the same for calls that ignore the mismatch with the realpath and whose
\* target is a file or a directory, obj leading to the target afterwards
C25_IdempotentIgnoring ==
    (/\ MadeSymlink
     /\ symCall.args.ignore
     /\ symCall.before[symCall.args.target].kind \in { "dir", "file" }) =>
        /\ PointsTo(symCall.before, symCall.args) =>
              (symCall.outcome = "ok" /\ symFs = symCall.before)
        /\ (symCall.outcome = "ok" /\ ~symCall.args.dry_run) =>
              realpath(symFs, symCall.args.obj) = symCall.args.target
        /\ (/\ symPrev # NoSymCall
            /\ symPrev.args = symCall.args
            /\ symPrev.outcome = "ok") =>
              (symCall.outcome = "ok" /\ symFs = symCall.before)

\* the second of two equal calls raised after the first made the link
C25_WitnessSecondRaises ==
    /\ MadeSymlink /\ symPrev # NoSymCall
    /\ symPrev.args = symCall.args /\ symPrev.outcome = "ok"
    /\ ~symCall.args.ignore /\ ~symCall.args.dry_run
    /\ PointsTo(symCall.before, symCall.args)
    /\ symCall.outcome = "PosixOperationError"

\* ------------------------------------------------------- SpecStat
\* permissions (the octal digits), owners and groups
Modes == { 711, 750 }
Uids  == { 2048, 2049 }
Gids  == { 4096, 4097 }

\* what os.makedirs gives a new directory: the default mode, the ids of the
\* process
NewDir == [ mode |-> 755, uid |-> 0, gid |-> 0 ]

StatDirs == { None } \cup { Some(d) : d \in [ mode : Modes, uid : Uids, gid : Gids ] }

\* the two conditions of create_stat_directory on a directory that os.stat
\* found (statinfo) or that make_dir made (created)
\* Mutant: the permissions are changed without override_permissions as well.
needs_chmod_always(created, statinfo, a) ==
    created \/ statinfo.mode # a.permissions

needs_chmod(created, statinfo, a) ==
    created \/ (a.override_permissions /\ statinfo.mode # a.permissions)

needs_chown(created, statinfo, a) ==
    created \/ statinfo.uid # a.uid \/ statinfo.gid # a.gid

\* the directory after self.chmod and self.chown where they are called
stat_directory(created, statinfo, a, chmod, chown) ==
    [ created |-> created, chmod |-> chmod, chown |-> chown,
      dir     |-> Some([ mode |-> IF chmod THEN a.permissions ELSE statinfo.mode,
                         uid  |-> IF chown THEN a.uid ELSE statinfo.uid,
                         gid  |-> IF chown THEN a.gid ELSE statinfo.gid ]) ]

\* PosixOperations.create_stat_directory (not a dry run): os.stat fails when
\* there is nothing at path, and make_dir makes the directory and returns True
create_stat_directory_of(created, statinfo, a) ==
    stat_directory(created, statinfo, a,
                   needs_chmod(created, statinfo, a), needs_chown(created, statinfo, a))

create_stat_directory(dir, a) ==
    IF dir = None THEN create_stat_directory_of(TRUE, NewDir, a)
    ELSE create_stat_directory_of(FALSE, dir[1], a)

StatCalls ==
    [ permissions : Modes, uid : Uids, gid : Gids, override_permissions : BOOLEAN ]

InitStat ==
    /\ statDir \in StatDirs
    /\ statCall = NoStatCall
    /\ BaseIdle
    /\ MainIdle
    /\ GpfsIdle
    /\ FlagIdle
    /\ SnapIdle
    /\ QuotaIdle
    /\ LfsIdle
    /\ SymIdle

CreateStatDirectoryCall(a, r) ==
    /\ statCall' = [ op |-> "create_stat_directory", args |-> a, before |-> statDir,
                     returned |-> r.created, chmod |-> r.chmod, chown |-> r.chown ]
    /\ statDir' = r.dir
    /\ UNCHANGED notStat

\* PosixOperations.create_stat_directory
CreateStatDirectory ==
    \E a \in StatCalls : CreateStatDirectoryCall(a, create_stat_directory(statDir, a))

NextStat == CreateStatDirectory

SpecStat == InitStat /\ [][NextStat]_vars

StatCalled == statCall.op = "create_stat_directory"

C26_WitnessCreated ==
    /\ StatCalled
    /\ statCall.before = None /\ statCall.returned
    /\ statCall.chmod /\ statCall.chown

\* ------------------------------------------------------- SpecFlag
\* the files populate_home_dir changes the ownership of: home_dir, .ssh,
\* .ssh/authorized_keys, .bashrc, .bash_profile
HomeFiles == 5

\* the users of one call of process_user_quota
QuotaUsers == 3

InitFlag ==
    /\ ignorerealpathmismatch = FALSE
    /\ flagPc = NoOperation
    /\ flagOutcome = "none"
    /\ BaseIdle
    /\ MainIdle
    /\ GpfsIdle
    /\ SnapIdle
    /\ QuotaIdle
    /\ LfsIdle
    /\ SymIdle
    /\ StatIdle

\* an operation ends: it returns, or an exception leaves it
Ends(outcome) ==
    /\ flagPc' = NoOperation
    /\ flagOutcome' = outcome

\* populate_home_dir up to the loop over the files (make_dir, the keys, the
\* chmods and the dot files, any of which may raise)
PopulateHomeDir ==
    /\ flagPc = NoOperation
    /\ \/ /\ flagPc' = [ op |-> "populate_home_dir", at |-> "set", f |-> 1 ]
          /\ UNCHANGED flagOutcome
       \/ Ends("raised")
    /\ UNCHANGED <<ignorerealpathmismatch, notFlag>>

\* self.ignorerealpathmismatch = True
PopulateSet ==
    /\ flagPc.op = "populate_home_dir" /\ flagPc.at = "set"
    /\ ignorerealpathmismatch' = TRUE
    /\ flagPc' = [ flagPc EXCEPT !.at = "chown" ]
    /\ UNCHANGED <<flagOutcome, notFlag>>

\* self.chown(user_id, group_id, f): it returns, or it raises
\* PosixOperationError (of _sanity_check, or for the OSError of os.chown),
\* which is not the OSError the loop catches
PopulateChown ==
    /\ flagPc.op = "populate_home_dir" /\ flagPc.at = "chown"
    /\ \/ /\ flagPc' = [ flagPc EXCEPT !.at = "reset" ]
          /\ UNCHANGED flagOutcome
       \/ Ends("raised")
    /\ UNCHANGED <<ignorerealpathmismatch, notFlag>>

\* self.ignorerealpathmismatch = False, and the next file
PopulateReset ==
    /\ flagPc.op = "populate_home_dir" /\ flagPc.at = "reset"
    /\ ignorerealpathmismatch' = FALSE
    /\ IF flagPc.f < HomeFiles
       THEN /\ flagPc' = [ flagPc EXCEPT !.at = "set", !.f = flagPc.f + 1 ]
            /\ UNCHANGED flagOutcome
       ELSE Ends("returned")
    /\ UNCHANGED notFlag

\* process_user_quota: the loop over the users up to the update of the cache
\* of a user (os.stat and FileCache may raise); a dry run changes nothing
ProcessUserQuota ==
    /\ flagPc = NoOperation
    /\ \E dry_run_ \in BOOLEAN :
         \/ /\ ~dry_run_
            /\ flagPc' = [ op |-> "process_user_quota", at |-> "set", f |-> 1 ]
            /\ UNCHANGED flagOutcome
         \/ /\ dry_run_
            /\ Ends("returned")
         \/ Ends("raised")
    /\ UNCHANGED <<ignorerealpathmismatch, notFlag>>

\* gpfs.ignorerealpathmismatch = True
QuotaSet ==
    /\ flagPc.op = "process_user_quota" /\ flagPc.at = "set"
    /\ ignorerealpathmismatch' = TRUE
    /\ flagPc' = [ flagPc EXCEPT !.at = "chmod" ]
    /\ UNCHANGED <<flagOutcome, notFlag>>

\* gpfs.chmod(0640, filename)
QuotaChmod ==
    /\ flagPc.op = "process_user_quota" /\ flagPc.at = "chmod"
    /\ \/ /\ flagPc' = [ flagPc EXCEPT !.at = "chown" ]
          /\ UNCHANGED flagOutcome
       \/ Ends("raised")
    /\ UNCHANGED <<ignorerealpathmismatch, notFlag>>

\* gpfs.chown(path_stat.st_uid, path_stat.st_uid, filename)
QuotaChown ==
    /\ flagPc.op = "process_user_quota" /\ flagPc.at = "chown"
    /\ \/ /\ flagPc' = [ flagPc EXCEPT !.at = "reset" ]
          /\ UNCHANGED flagOutcome
       \/ Ends("raised")
    /\ UNCHANGED <<ignorerealpathmismatch, notFlag>>

\* gpfs.ignorerealpathmismatch = False, and the next user
QuotaReset ==
    /\ flagPc.op = "process_user_quota" /\ flagPc.at = "reset"
    /\ ignorerealpathmismatch' = FALSE
    /\ IF flagPc.f < QuotaUsers
       THEN /\ flagPc' = [ flagPc EXCEPT !.at = "set", !.f = flagPc.f + 1 ]
            /\ UNCHANGED flagOutcome
       ELSE Ends("returned")
    /\ UNCHANGED notFlag

\* a later operation on a path that is a symlink: _sanity_check raises
\* unless the mismatch with the realpath is ignored
SanityCheckOfLink ==
    /\ flagPc = NoOperation
    /\ flagOutcome \in { "returned", "raised" }
    /\ flagOutcome' = IF ignorerealpathmismatch THEN "link accepted" ELSE "link refused"
    /\ UNCHANGED <<ignorerealpathmismatch, flagPc, notFlag>>

NextFlag ==
    \/ PopulateHomeDir \/ PopulateSet \/ PopulateChown \/ PopulateReset
    \/ ProcessUserQuota \/ QuotaSet \/ QuotaChmod \/ QuotaChown \/ QuotaReset
    \/ SanityCheckOfLink

SpecFlag == InitFlag /\ [][NextFlag]_vars

\* C30: ignorerealpathmismatch is False whenever neither populate_home_dir
\* nor process_user_quota is executing, also after one of them has raised.
C30_FlagFalseWhenIdle ==
    flagPc = NoOperation => ~ignorerealpathmismatch

\* a link passed the check of a later operation
C30_WitnessLeft ==
    flagPc = NoOperation /\ flagOutcome = "link accepted"

\* ------------------------------------------------------- SpecGpfs
\* the devices of the cluster, all mounted automatically, and the filesets of
\* each of them
GpfsDevices == { "fs1", "fs2" }
GpfsFilesets == { "root", "f1" }

\* the device argument as the list of the loop: ['all'] or one device
AllDevices == << "all" >>
DeviceArgs == { AllDevices } \cup { << d >> : d \in GpfsDevices }

\* the devices mmlsfs reports for a device argument
DevicesOf(device) == IF device = AllDevices THEN GpfsDevices ELSE { device[1] }

\* a cached dict that is not None and not empty
Cached(held) == held # None /\ DOMAIN held[1] # {}

\* GpfsOperations.list_filesystems(device, update): what it returns and
\* self.gpfslocalfilesystems afterwards
list_filesystems(held, fss, device, update_) ==
    IF ~update_ /\ Cached(held)
    THEN [ returned |-> held[1], held |-> held ]
    ELSE LET res == [ d \in DevicesOf(device) |-> fss[d] ]
         IN  [ returned |-> res, held |-> Some(res) ]

\* self.gpfslocalfilesystems after the lookup of the devices of list_filesets
\* (list_filesystems() if it is None)
filesystems_for_filesets(held, fss, devices_) ==
    IF devices_ = None /\ held = None
    THEN list_filesystems(held, fss, AllDevices, FALSE).held
    ELSE held

\* GpfsOperations.list_filesets(devices, filesetnames, update): mmlsfileset
\* of each device, for the names given or for all filesets
filesets_of(devs, filesetnames) ==
    [ d \in devs |-> IF filesetnames = None THEN GpfsFilesets ELSE filesetnames[1] ]

list_filesets_of(heldfs, heldsets, devices_, filesetnames, update_) ==
    IF ~update_ /\ Cached(heldsets)
    THEN [ returned |-> heldsets[1], held |-> heldsets ]
    ELSE LET res == filesets_of(IF devices_ = None THEN DOMAIN heldfs[1]
                                ELSE { devices_[1] }, filesetnames)
         IN  [ returned |-> res, held |-> Some(res) ]

\* GpfsOperations.get_filesystem_info(filesystem): self.list_filesystems()
\* and the entry of the filesystem, or GpfsOperationError
get_filesystem_info_of(listed, filesystem) ==
    IF filesystem \in DOMAIN listed.returned
    THEN [ returned |-> Some(listed.returned[filesystem]), held |-> listed.held ]
    ELSE [ returned |-> None, held |-> listed.held ]

InitGpfs ==
    /\ gpfsFilesystems = [ d \in GpfsDevices |-> 0 ]
    /\ gpfslocalfilesystems = None
    /\ gpfslocalfilesets = None
    /\ gpfsCall = NoGpfsCall
    /\ BaseIdle
    /\ MainIdle
    /\ SnapIdle
    /\ QuotaIdle
    /\ LfsIdle
    /\ SymIdle
    /\ StatIdle
    /\ FlagIdle

\* the information of a filesystem changes (mmchfs)
ChangeFilesystem ==
    \E d \in GpfsDevices :
        /\ gpfsFilesystems[d] < MaxChanges
        /\ gpfsFilesystems' = [ gpfsFilesystems EXCEPT ![d] = @ + 1 ]
        /\ UNCHANGED <<gpfslocalfilesystems, gpfslocalfilesets, gpfsCall, notGpfs>>

ListFilesystemsCall(device, update_, r) ==
    /\ gpfsCall' = [ op |-> "list_filesystems", device |-> device, update |-> update_,
                     returned |-> r.returned, fss |-> gpfsFilesystems ]
    /\ gpfslocalfilesystems' = r.held
    /\ UNCHANGED <<gpfsFilesystems, gpfslocalfilesets, notGpfs>>

\* GpfsOperations.list_filesystems
ListFilesystems ==
    \E device \in DeviceArgs, update_ \in BOOLEAN :
        ListFilesystemsCall(device, update_,
                            list_filesystems(gpfslocalfilesystems, gpfsFilesystems, device, update_))

ListGpfsFilesetsCall(devices_, filesetnames, update_, heldfs, r) ==
    /\ gpfsCall' = [ op |-> "list_filesets", devices |-> devices_,
                     filesetnames |-> filesetnames, update |-> update_,
                     returned |-> r.returned, fss |-> gpfsFilesystems ]
    /\ gpfslocalfilesystems' = heldfs
    /\ gpfslocalfilesets' = r.held
    /\ UNCHANGED <<gpfsFilesystems, notGpfs>>

ListGpfsFilesetsWith(devices_, filesetnames, update_, heldfs) ==
    ListGpfsFilesetsCall(devices_, filesetnames, update_,
                         IF ~update_ /\ Cached(gpfslocalfilesets)
                         THEN gpfslocalfilesystems ELSE heldfs,
                         list_filesets_of(heldfs, gpfslocalfilesets, devices_, filesetnames, update_))

\* GpfsOperations.list_filesets
ListGpfsFilesets ==
    \E devices_ \in { None } \cup { Some(d) : d \in GpfsDevices },
       filesetnames \in { None, Some({ "f1" }) }, update_ \in BOOLEAN :
        ListGpfsFilesetsWith(devices_, filesetnames, update_,
                             filesystems_for_filesets(gpfslocalfilesystems, gpfsFilesystems, devices_))

GetFilesystemInfoCall(filesystem, r) ==
    /\ gpfsCall' = [ op |-> "get_filesystem_info", filesystem |-> filesystem,
                     returned |-> r.returned, fss |-> gpfsFilesystems ]
    /\ gpfslocalfilesystems' = r.held
    /\ UNCHANGED <<gpfsFilesystems, gpfslocalfilesets, notGpfs>>

\* GpfsOperations.get_filesystem_info
GetFilesystemInfo ==
    \E filesystem \in GpfsDevices :
        GetFilesystemInfoCall(filesystem,
            get_filesystem_info_of(list_filesystems(gpfslocalfilesystems, gpfsFilesystems,
                                                    AllDevices, FALSE), filesystem))

NextGpfs == ChangeFilesystem \/ ListFilesystems \/ ListGpfsFilesets \/ GetFilesystemInfo

SpecGpfs == InitGpfs /\ [][NextGpfs]_vars

\* C29: list_filesystems(device=D, update=False) returns the information of
\* exactly the devices D, list_filesets(devices=D, filesetnames=F,
\* update=False) that of exactly the devices and filesets asked for, and
\* get_filesystem_info the latest information of the filesystem.
C29_ExactlyTheRequested ==
    /\ (gpfsCall.op = "list_filesystems" /\ ~gpfsCall.update) =>
          DOMAIN gpfsCall.returned = DevicesOf(gpfsCall.device)
    /\ (gpfsCall.op = "list_filesets" /\ ~gpfsCall.update) =>
          gpfsCall.returned =
              filesets_of(IF gpfsCall.devices = None THEN GpfsDevices
                          ELSE { gpfsCall.devices[1] }, gpfsCall.filesetnames)
    /\ gpfsCall.op = "get_filesystem_info" =>
          gpfsCall.returned = Some(gpfsCall.fss[gpfsCall.filesystem])

\* with update=True the calls return what was asked for, as it is now
C29_UpdatedIsRequested ==
    /\ (gpfsCall.op = "list_filesystems" /\ gpfsCall.update) =>
          gpfsCall.returned = [ d \in DevicesOf(gpfsCall.device) |-> gpfsCall.fss[d] ]
    /\ (gpfsCall.op = "list_filesets" /\ gpfsCall.update /\ gpfsCall.devices # None) =>
          gpfsCall.returned = filesets_of({ gpfsCall.devices[1] }, gpfsCall.filesetnames)

\* get_filesystem_info returned information that is not the latest
C29_WitnessStale ==
    /\ gpfsCall.op = "get_filesystem_info"
    /\ gpfsCall.returned # None
    /\ gpfsCall.returned # Some(gpfsCall.fss[gpfsCall.filesystem])

\* ------------------------------------------------------- SpecMain
\* the storages of the options, each on a filesystem of its own
MainStorages == << "s1", "s2", "s3" >>

\* what GPFS has for a filesystem: "ok" (mounted automatically, with quota
\* rows), "unknown" (mmlsfs reports no such device), "not mounted" (known,
\* dropped by the filter of list_filesystems), "no quota" (no row of
\* mmrepquota)
FsStates == { "ok", "unknown", "not mounted", "no quota" }

\* opts.options.storage: some of the storages, in their order
RECURSIVE Selected(_, _)
Selected(seq, keep) ==
    IF seq = << >> THEN << >>
    ELSE (IF Head(seq) \in keep THEN << Head(seq) >> ELSE << >>) \o Selected(Tail(seq), keep)

Elements(seq) == { seq[i] : i \in 1..Len(seq) }

\* gpfs.list_filesystems(target_filesystems) raises GpfsOperationError for a
\* device mmlsfs has no data of
list_filesystems_raises(fs, requested) ==
    \E st \in Elements(requested) : fs[st] = "unknown"

\* the keys of the result of list_filesystems: the filter drops the
\* filesystems that are not mounted automatically
DiscoveredFilesystems(fs, requested) ==
    { st \in Elements(requested) : fs[st] # "not mounted" }

\* the keys of the result of list_quota
QuotaFilesystems(fs, requested) ==
    { st \in DiscoveredFilesystems(fs, requested) : fs[st] # "no quota" }

\* the two tests of the loop of main that end in continue
storage_skipped(fs, requested, st) ==
    \/ st \notin DiscoveredFilesystems(fs, requested)
    \/ st \notin QuotaFilesystems(fs, requested)

InitMain ==
    /\ mainFs \in [ Elements(MainStorages) -> FsStates ]
    /\ mainPc = "start"
    /\ \E keep \in SUBSET Elements(MainStorages) :
         /\ keep # {}
         /\ mainTodo = Selected(MainStorages, keep)
         /\ mainDone = [ requested |-> Selected(MainStorages, keep),
                         processed |-> {}, skipped |-> {} ]
    /\ mainOutcome = "running"
    /\ BaseIdle
    /\ SnapIdle
    /\ QuotaIdle
    /\ LfsIdle
    /\ SymIdle
    /\ StatIdle
    /\ FlagIdle
    /\ GpfsIdle

\* main up to the loop: list_filesystems, list_filesets, list_quota; an
\* exception ends the run as critical
Discover ==
    /\ mainPc = "start"
    /\ IF list_filesystems_raises(mainFs, mainDone.requested)
       THEN /\ mainPc' = "done"
            /\ mainOutcome' = "critical"
       ELSE /\ mainPc' = "loop"
            /\ UNCHANGED mainOutcome
    /\ UNCHANGED <<mainFs, mainTodo, mainDone, notMain>>

\* one storage of the loop: skipped with logger.error and continue, or
\* processed and notified
ProcessStorage ==
    /\ mainPc = "loop"
    /\ mainTodo # << >>
    /\ mainDone' =
         IF storage_skipped(mainFs, mainDone.requested, Head(mainTodo))
         THEN [ mainDone EXCEPT !.skipped = @ \cup { Head(mainTodo) } ]
         ELSE [ mainDone EXCEPT !.processed = @ \cup { Head(mainTodo) } ]
    /\ mainTodo' = Tail(mainTodo)
    /\ UNCHANGED <<mainFs, mainPc, mainOutcome, notMain>>

\* opts.epilogue("quota check completed", stats)
Epilogue ==
    /\ mainPc = "loop"
    /\ mainTodo = << >>
    /\ mainPc' = "done"
    /\ mainOutcome' = "completed"
    /\ UNCHANGED <<mainFs, mainTodo, mainDone, notMain>>

NextMain == Discover \/ ProcessStorage \/ Epilogue

SpecMain == InitMain /\ [][NextMain]_vars

\* the storages asked for whose filesystem has data in the filesystems found
\* and in the quota output
WithData == { st \in Elements(mainDone.requested) : mainFs[st] = "ok" }

\* C28: a storage whose filesystem has no data in the filesystems found or in
\* the quota output is skipped and is not fatal: the run completes, all other
\* storages asked for are processed and notified.
C28_MissingIsSkipped ==
    mainPc = "done" =>
        /\ mainOutcome = "completed"
        /\ mainDone.processed = WithData
        /\ mainDone.skipped = Elements(mainDone.requested) \ WithData

\* the same when mmlsfs knows every filesystem asked for
C28_KnownIsSkipped ==
    (mainPc = "done" /\ ~list_filesystems_raises(mainFs, mainDone.requested)) =>
        /\ mainOutcome = "completed"
        /\ mainDone.processed = WithData
        /\ mainDone.skipped = Elements(mainDone.requested) \ WithData

\* a run that skipped a storage and processed another
C28_WitnessSkipped ==
    /\ mainPc = "done" /\ mainOutcome = "completed"
    /\ mainDone.skipped # {} /\ mainDone.processed # {}

\* a run ended as critical with a storage that has data
C28_WitnessFatal ==
    /\ mainPc = "done" /\ mainOutcome = "critical"
    /\ WithData # {}

\* ------------------------------------------------------- SpecRun
BetweenRuns == pc \in { "idle", "done", "aborted" }

\* Time passes between two runs (the first run is at time 0).
Tick ==
    /\ BetweenRuns
    /\ 0 < runs /\ runs < MaxRuns
    /\ \E t \in ClockValues : t > clock /\ clock' = t
    /\ UNCHANGED <<runs, pc, dry_run, quota_storage_map, pending, exceeding, target,
                   todo, cache, cacheFile, mails, checked, lastCheck, failure, written,
                   everRaised>>
    /\ UNCHANGED <<entityVars, graceVars, parseVars, opsVars>>

\* main() up to get_mmrepquota_maps: an entity per subject is built from its
\* quota line; a grace string that raises ends the run.
StartRun ==
    /\ BetweenRuns
    /\ runs < MaxRuns
    /\ runs' = runs + 1
    /\ \E dr \in BOOLEAN, g \in [ { s \in Subjects : is_handled_user(s) \/ s \in Filesets }
                                      -> RunGraceInputs ] :
         LET line == [ s \in Subjects |->
                         update_quota_entity(NewQuotaEntity, s,
                                             IF s \in DOMAIN g THEN g[s] ELSE Expired,
                                             10, clock) ]
         IN  /\ dry_run' = dr
             /\ IF \E s \in Subjects : line[s].raised
                THEN /\ pc' = "aborted"
                     /\ failure' = [ phase |-> "collect", subject |-> <<>> ]
                     /\ quota_storage_map' = <<>>
                     /\ pending' = {}
                ELSE /\ pc' = "process_filesets"
                     /\ failure' = NoFailure
                     /\ quota_storage_map' = [ s \in Subjects |-> line[s].entity ]
                     /\ pending' = Filesets
    /\ exceeding' = NoEntries
    /\ target' = "none"
    /\ todo' = <<>>
    /\ cache' = <<>>
    /\ checked' = {}
    /\ lastCheck' = NoCheck
    /\ written' = NoEntries
    /\ UNCHANGED <<clock, cacheFile, mails, everRaised>>
    /\ UNCHANGED <<entityVars, graceVars, parseVars, opsVars>>

\* The exception reaches main(): the run ends, nothing in memory is saved.
Abort(phase, subject) ==
    /\ pc' = "aborted"
    /\ failure' = [ phase |-> phase, subject |-> subject ]
    /\ everRaised' = TRUE
    /\ pending' = {}
    /\ todo' = <<>>
    /\ cache' = <<>>
    /\ target' = "none"

\* One iteration of the loop of process_fileset_quota: the quota is stored in
\* the fileset (os.stat, FileCache, chmod, chown may raise), then looked at.
ProcessFileset ==
    /\ pc = "process_filesets"
    /\ \E f \in pending, ok \in BOOLEAN :
         IF ok
         THEN /\ pending' = pending \ {f}
              /\ exceeding' = [ exceeding EXCEPT !.filesets =
                                  append_if_exceeding(@, f, quota_storage_map[f]) ]
              /\ UNCHANGED <<pc, failure, todo, cache, target, everRaised>>
         ELSE /\ Abort("store", f)
              /\ UNCHANGED exceeding
    /\ UNCHANGED <<clock, runs, dry_run, quota_storage_map, cacheFile, mails, checked,
                   lastCheck, written>>
    /\ UNCHANGED <<entityVars, graceVars, parseVars, opsVars>>

\* process_fileset_quota returns, process_user_quota starts.
ProcessFilesetsDone ==
    /\ pc = "process_filesets"
    /\ pending = {}
    /\ pc' = "process_users"
    /\ pending' = Users
    /\ UNCHANGED <<clock, runs, dry_run, quota_storage_map, exceeding, target, todo,
                   cache, cacheFile, mails, checked, lastCheck, failure, written,
                   everRaised>>
    /\ UNCHANGED <<entityVars, graceVars, parseVars, opsVars>>

\* One iteration of the loop of process_user_quota.
ProcessUser ==
    /\ pc = "process_users"
    /\ \E u \in pending, ok \in BOOLEAN :
         IF ~is_handled_user(u)
         THEN /\ ok
              /\ pending' = pending \ {u}
              /\ UNCHANGED <<pc, failure, todo, cache, target, exceeding, quota_storage_map, everRaised>>
         ELSE IF ok
         THEN LET q == sanitize_quota_information(UserPathTemplate, quota_storage_map[u])
              IN  /\ pending' = pending \ {u}
                  /\ quota_storage_map' = [ quota_storage_map EXCEPT ![u] = q ]
                  /\ exceeding' = [ exceeding EXCEPT !.users = append_if_exceeding(@, u, q) ]
                  /\ UNCHANGED <<pc, failure, todo, cache, target, everRaised>>
         ELSE /\ Abort("store", u)
              /\ UNCHANGED <<exceeding, quota_storage_map>>
    /\ UNCHANGED <<clock, runs, dry_run, cacheFile, mails, checked, lastCheck, written>>
    /\ UNCHANGED <<entityVars, graceVars, parseVars, opsVars>>

\* process_user_quota returns; notify_exceeding_filesets opens its cache.
ProcessUsersDone ==
    /\ pc = "process_users"
    /\ pending = {}
    /\ pc' = "notify"
    /\ target' = "filesets"
    /\ cache' = FileCache_open(cacheFile.filesets)
    /\ todo' = exceeding.filesets
    /\ UNCHANGED <<clock, runs, dry_run, quota_storage_map, pending, exceeding,
                   cacheFile, mails, checked, lastCheck, failure, written, everRaised>>
    /\ UNCHANGED <<entityVars, graceVars, parseVars, opsVars>>

\* One iteration of the loop of notify_exceeding_items: cache.update, and
\* notify() when it returned true; notify() may raise.
NotifyItem ==
    /\ pc = "notify"
    /\ todo # <<>>
    /\ LET item  == Head(todo)
           quota == quota_storage_map[item]
           r     == cache_update_item(cache, item, quota, clock)
           check == [ item     |-> item,
                      prior    |-> IF item \in DOMAIN cache THEN cache[item] ELSE None,
                      now      |-> clock,
                      updated  |-> r.updated,
                      notified |-> r.updated,
                      entry    |-> r.shelf[item] ]
       IN  /\ checked' = checked \cup {item}
           /\ lastCheck' = check
           /\ written' = IF r.updated
                         THEN [ written EXCEPT ![target] = DictSet(@, item, r.shelf[item]) ]
                         ELSE written
           /\ \E ok \in BOOLEAN :
                IF ok \/ ~r.updated
                THEN /\ ok
                     /\ cache' = r.shelf
                     /\ todo' = Tail(todo)
                     /\ mails' = IF r.updated /\ notify(item, dry_run)
                                 THEN mails \cup { [ target |-> target, item |-> item,
                                                     at |-> clock ] }
                                 ELSE mails
                     /\ UNCHANGED <<pc, failure, pending, target, everRaised>>
                ELSE /\ Abort("notify", item)
                     /\ UNCHANGED mails
    /\ UNCHANGED <<clock, runs, dry_run, quota_storage_map, exceeding, cacheFile>>
    /\ UNCHANGED <<entityVars, graceVars, parseVars, opsVars>>

\* The loop is over: the cache is saved unless this is a dry run; after the
\* filesets the users' notify_exceeding_items opens its cache, after the users
\* main() is done.
CloseCache ==
    /\ pc = "notify"
    /\ todo = <<>>
    /\ cacheFile' = IF dry_run THEN cacheFile
                    ELSE [ cacheFile EXCEPT ![target] = FileCache_close(cache) ]
    /\ IF target = "filesets"
       THEN /\ target' = "users"
            /\ cache' = FileCache_open(cacheFile.users)
            /\ todo' = exceeding.users
            /\ UNCHANGED pc
       ELSE /\ target' = "none"
            /\ cache' = <<>>
            /\ pc' = "done"
            /\ UNCHANGED todo
    /\ UNCHANGED <<clock, runs, dry_run, quota_storage_map, pending, exceeding, mails,
                   checked, lastCheck, failure, written, everRaised>>
    /\ UNCHANGED <<entityVars, graceVars, parseVars, opsVars>>

InitRun ==
    /\ RunIdle
    /\ entity = NewQuotaEntity
    /\ anyExpiredUpdate = FALSE
    /\ updatedFilesets = {}
    /\ removedAny = FALSE
    /\ lastOp = NoOp
    /\ GraceIdle
    /\ ParseIdle

NextRun ==
    \/ Tick
    \/ StartRun
    \/ ProcessFileset
    \/ ProcessFilesetsDone
    \/ ProcessUser
    \/ ProcessUsersDone
    \/ NotifyItem
    \/ CloseCache

SpecRun == InitRun /\ [][NextRun]_vars

\* the time since the prior cache entry of the last dedup check was written
SincePrior == lastCheck.now - lastCheck.prior[1]

\* C4: the dedup check returns true and sets the cache entry of the subject to
\* (now, current quota) when the cache holds no entry for it, and when an entry
\* exists and the threshold has elapsed since it was written.
C4_FirstOrStaleNotifies ==
    (lastCheck.item # <<>> /\ (lastCheck.prior = None
                                \/ SincePrior >= QUOTA_NOTIFICATION_CACHE_THRESHOLD)) =>
        /\ lastCheck.updated
        /\ lastCheck.entry = <<lastCheck.now, quota_storage_map[lastCheck.item]>>

\* C4 witness: an entry written at t0 was found at t0 + T + 1 and refreshed.
C4_Witness ==
    /\ lastCheck.item # <<>>
    /\ lastCheck.prior # None
    /\ SincePrior = QUOTA_NOTIFICATION_CACHE_THRESHOLD + 1
    /\ lastCheck.updated
    /\ lastCheck.entry[1] = lastCheck.now

\* C4 witness, case (a): a subject with no prior entry was checked and entered.
C4_WitnessFirst ==
    /\ lastCheck.item # <<>>
    /\ lastCheck.prior = None
    /\ lastCheck.updated

\* C5: when an entry exists and less than the threshold has elapsed since it
\* was written, the dedup check returns false, notify() is not called and the
\* entry (timestamp and quota) stays as it was.
C5_WithinThresholdSuppressed ==
    (lastCheck.item # <<>> /\ lastCheck.prior # None
                           /\ SincePrior < QUOTA_NOTIFICATION_CACHE_THRESHOLD) =>
        /\ ~lastCheck.updated
        /\ ~lastCheck.notified
        /\ lastCheck.entry = lastCheck.prior

\* C5 witness: an entry written at t0 was found at t0 + T - 1 and left alone.
C5_Witness ==
    /\ lastCheck.item # <<>>
    /\ lastCheck.prior # None
    /\ SincePrior = QUOTA_NOTIFICATION_CACHE_THRESHOLD - 1
    /\ ~lastCheck.updated
    /\ lastCheck.entry = lastCheck.prior

\* C6: two mails for the same subject of the same target are never less than
\* the threshold apart.
C6_CooldownBetweenMails ==
    \A m1 \in mails : \A m2 \in mails :
        (m1.target = m2.target /\ m1.item = m2.item /\ m1.at < m2.at)
            => m2.at - m1.at >= QUOTA_NOTIFICATION_CACHE_THRESHOLD

\* the subjects of this run that are handled and exceed
ExceedingSubjects ==
    { s \in DOMAIN quota_storage_map :
        /\ s \in Filesets \/ is_handled_user(s)
        /\ exceeds(quota_storage_map[s]) }

\* C7: notify() is called for a subject only if its entity exceeds in this run
\* and the cache update returned true; a subject that does not exceed is in no
\* exceeding list and is never passed to the cache.
C7_OnlyExceedingUpdatedNotified ==
    /\ lastCheck.notified => (lastCheck.updated /\ lastCheck.item \in ExceedingSubjects)
    /\ checked \subseteq ExceedingSubjects
    /\ \A i \in 1..Len(exceeding.users) : exceeding.users[i] \in ExceedingSubjects
    /\ \A i \in 1..Len(exceeding.filesets) : exceeding.filesets[i] \in ExceedingSubjects

\* C7 witness: a run is done in which one user was notified and another user,
\* not exceeding, was not passed to the cache.
C7_Witness ==
    /\ pc = "done"
    /\ lastCheck.notified
    /\ \E u \in Users : /\ is_handled_user(u)
                        /\ ~exceeds(quota_storage_map[u])
                        /\ u \notin checked
    /\ \E m \in mails : m.item = lastCheck.item /\ m.at = lastCheck.now

\* C8: a failure while storing or notifying one subject does not keep the other
\* exceeding subjects of the run from being checked against the cache, and the
\* cache entries set for the subjects already processed are persisted.
C8_FailureIsPerSubject ==
    (pc = "aborted" /\ failure.phase \in {"store", "notify"}) =>
        /\ ExceedingSubjects \ {failure.subject} \subseteq checked
        /\ ~dry_run =>
             \A t \in {"filesets", "users"} : \A i \in DOMAIN written[t] :
                 i \in DOMAIN cacheFile[t] /\ cacheFile[t][i] = written[t][i]

\* C6 fails through the runs that raise (C8) only: as long as no run has raised
\* while storing or notifying, the mails keep the threshold.
C6_CooldownUnlessRaised == ~everRaised => C6_CooldownBetweenMails

====
